---- MODULE Spec2Model ----
(***************************************************************************)
(* Mask-guided compositing pipeline of the car visualiser: the region      *)
(* filters (connected-component pruning of segmentation masks), mask       *)
(* alignment, the masked cutout of the replace-wheels and paint-body       *)
(* routes, and the client canvas compositing of the resulting layers.      *)
(*                                                                         *)
(* A raster is a function from pixel indices (row-major, idx = y*W + x)    *)
(* to values: a mask maps to an intensity 0..255, a colour raster to an    *)
(* <<r, g, b>> triple, a layer to an <<r, g, b, a>> quadruple.             *)
(***************************************************************************)
EXTENDS Integers, Sequences, FiniteSets, TLC

\* ------------------------------------------------------------------ bounds

\* Width and height of the original photograph, in pixels.
W == 3
H == 3

Pixels == 0 .. (W * H - 1)

\* Null stands for a raster that is absent (null, undefined, not computed).
Null == <<>>

\* The intensities a mask pixel takes in the region-filter runs: black, the
\* threshold value itself, and white.
FilterLevels == {0, 128, 255}

\* keep = 4 at the wheel call site (detect-wheels).
WheelKeep == 4

\* keepCount = 2: the default of filterMaskToLargestRegions.
DefaultKeepCount == 2

\* The values of keep tried: the body filter's 1, the mask-utils default
\* and the wheel filter's 4.
Keeps == {1, DefaultKeepCount, WheelKeep}

VARIABLES
  \* One run of a region filter.
  inMask,     \* the mask handed to the filter, already W x H
  keep,       \* the number of components to retain
  outMask,   \* the filter's output, Null before it ran
  filterFn,   \* which filter ran, "none" before
  \* The editor and the requests it makes for one uploaded photograph.
  originalImage,  \* the photograph: a W x H colour raster
  wheelMask,      \* the wheel mask the caller holds (a mask record), or Null
  wheelSam,       \* the segmentation output wheelMask was filtered from, or Null
  bodyMask,       \* the body mask the caller holds, or Null
  bodySam,        \* the segmentation output bodyMask was filtered from, or Null
  wheelCut,       \* replace-wheels: the cutout's inputs (generatedRaw, maskRaw)
  wheelLayer,     \* the wheel layer the editor shows: RGBA raster or Null
  paintCut,       \* paint-body: generatedRaw, maskRaw, bodyRaw, wheelRaw
  paintLayer,     \* the paint layer the editor shows: RGBA raster or Null
  wheelVisible,   \* visibility toggle of the wheel layer
  paintVisible,   \* visibility toggle of the paint layer
  canvas          \* the canvas pixels: a W x H colour raster

VARIABLES
  \* One request to a layer route (replace-wheels or paint-body).
  route,       \* which route serves the request
  form,        \* the request's form data and the server's token state
  step,        \* index of the next step of the route, 0 once responded
  stages,      \* the pipeline stages entered so far, in order
  calls,       \* the external collaborators called so far, in order
  candidate,   \* what the generative call returned, "none" before
  response     \* the HTTP response, Null until sent

VARIABLES
  \* One call of segmentWithSam3.
  samPrompt,   \* the text prompt of the caller
  samToken,    \* is REPLICATE_API_TOKEN set
  samPc,       \* "idle", "start", "attempt", "backoff", "returned", "thrown"
  attempt,     \* the loop counter
  samRuns,     \* the outcome of every replicate.run so far, in order
  samWaited,   \* milliseconds slept before retries
  lastError,   \* message of the last failed attempt, Null before
  samResult    \* the mask returned or the error thrown, Null before

VARIABLES
  \* The upload page: startDetection runs and the browser's sessionStorage.
  sessionStorage,  \* the keys tuner-ai-wheel-mask, -body-mask, -detection-in-progress
  uploads,         \* photographs chosen so far on the upload page
  detection        \* per upload: the state of its startDetection run

VARIABLES
  \* The editor's selection state and layer cache for one photograph.
  wheelLayers,     \* wheel id -> cached layer or Null
  paintLayers,     \* paint id -> cached layer or Null
  selectedWheel,   \* wheel id or null
  selectedPaint,   \* paint id or null
  viewingOriginal, \* "view original" toggle
  isProcessing,
  processingItem,  \* the id being generated or null
  error,           \* the message shown or null
  fetching,        \* the layer request in flight, Null when none
  timers,          \* the armed 3-minute timers, by request number
  requests,        \* every layer request issued so far, in order
  isLoadingWheelMask,
  isLoadingBodyMask

VARIABLES
  \* One call of extractDifferenceLayer.
  diffArgs,    \* originalImage, generatedImage, regionMask, maskMode
  diffPc,      \* "idle", "loadImages", "loadMask", "extract", "done"
  regionRaw,   \* maskRaw: the resized region mask, Null without one
  diffResult   \* Null before the call; the layer or the error after

VARIABLES
  \* One call of compositeWithMask.
  blendArgs,   \* originalImage, modifiedImage, mask
  blendPc,     \* "idle", "load", "loop", "encode", "done"
  blendRaw,    \* modifiedRaw and maskRaw at the photograph's size
  outputData,  \* the blended RGBA buffer, Null before the loop
  blendResult  \* the picture in the returned JPEG, Null before

VARIABLES
  \* One alignment step at one of the sites that resize.
  alignSite,   \* the site
  alignInput,  \* the mask or generated frame it is given
  alignPc,     \* "idle", "metadata", "resize", "done"
  alignOutput  \* the pixels at the photograph's size, Null before

VARIABLES
  \* The way from the upload page into the editor.
  entry,       \* "navigate" (router.push) or "embedded" (onSuccess)
  editorPc     \* "closed", "mounting", "polling", "settled"

VARIABLES
  \* The canvas component and its composite effect.
  deps,            \* the effect's dependencies at its last run, Null before
  compositeIdRef,  \* compositeIdRef.current
  composites,      \* the composite() calls, by compositeId
  canvasSize,      \* canvas.width x canvas.height, 0 before it is set
  shown            \* the images drawn on the canvas, bottom first

filterVars == <<inMask, keep, outMask, filterFn>>
editorVars == <<originalImage, wheelMask, wheelSam, bodyMask, bodySam, wheelCut,
                wheelLayer, paintCut, paintLayer, wheelVisible, paintVisible,
                canvas>>
requestVars == <<route, form, step, stages, calls, candidate, response>>
samVars == <<samPrompt, samToken, samPc, attempt, samRuns, samWaited,
             lastError, samResult>>
uploadVars == <<sessionStorage, uploads, detection>>
layerVars == <<wheelLayers, paintLayers, selectedWheel, selectedPaint,
               viewingOriginal, isProcessing, processingItem, error, fetching,
               timers, requests, isLoadingWheelMask, isLoadingBodyMask>>
diffVars == <<diffArgs, diffPc, regionRaw, diffResult>>
blendVars == <<blendArgs, blendPc, blendRaw, outputData, blendResult>>
alignVars == <<alignSite, alignInput, alignPc, alignOutput>>
sessionVars == <<entry, editorPc>>
compositeVars == <<deps, compositeIdRef, composites, canvasSize, shown>>

\* What each run leaves untouched.
nonFilterVars == <<editorVars, requestVars, samVars, uploadVars, layerVars,
                   diffVars, blendVars, alignVars, sessionVars, compositeVars>>
nonEditorVars == <<filterVars, requestVars, samVars, uploadVars, layerVars,
                   diffVars, blendVars, alignVars, sessionVars, compositeVars>>

vars == <<filterVars, editorVars, requestVars, samVars, uploadVars, layerVars,
          diffVars, blendVars, alignVars, sessionVars, compositeVars>>

\* JavaScript's null where the value is otherwise a string.
null == "null"

\* No request is being served.
RequestIdle ==
  /\ route = "none" /\ form = Null /\ step = 0 /\ stages = <<>>
  /\ calls = <<>> /\ candidate = "none" /\ response = Null

\* segmentWithSam3 is not running.
SamIdle ==
  /\ samPrompt = "none" /\ samToken = FALSE /\ samPc = "idle" /\ attempt = 0
  /\ samRuns = <<>> /\ samWaited = 0 /\ lastError = Null /\ samResult = Null

\* The upload page has not been used.
UploadIdle ==
  /\ sessionStorage = Null /\ uploads = 0 /\ detection = <<>>

\* The editor page is not mounted.
LayersIdle ==
  /\ wheelLayers = Null /\ paintLayers = Null
  /\ selectedWheel = null /\ selectedPaint = null
  /\ viewingOriginal = FALSE /\ isProcessing = FALSE
  /\ processingItem = null /\ error = null
  /\ fetching = Null /\ timers = {} /\ requests = <<>>
  /\ isLoadingWheelMask = FALSE /\ isLoadingBodyMask = FALSE

\* extractDifferenceLayer is not running.
DiffIdle ==
  /\ diffArgs = Null /\ diffPc = "idle" /\ regionRaw = Null
  /\ diffResult = Null

\* compositeWithMask is not running.
BlendIdle ==
  /\ blendArgs = Null /\ blendPc = "idle" /\ blendRaw = Null
  /\ outputData = Null /\ blendResult = Null

\* No alignment step is being looked at.
AlignIdle ==
  /\ alignSite = Null /\ alignInput = Null /\ alignPc = "idle"
  /\ alignOutput = Null

\* Nobody is on the way from the upload page into the editor.
SessionIdle == entry = "none" /\ editorPc = "idle"

\* The canvas component is not rendered.
CompositeIdle ==
  /\ deps = Null /\ compositeIdRef = 0 /\ composites = <<>>
  /\ canvasSize = 0 /\ shown = <<>>


\* ------------------------------------------------------- region filters

\* The intensity the route filters compare against (rawMask[idx] < 128,
\* rawMask[i] >= 128).
RouteThreshold == 128

\* The intensity filterMaskToLargestRegions compares against (r > 128).
UtilThreshold == 128

\* labels = new Int32Array(width * height): every pixel starts unlabelled.
NoLabels == [p \in Pixels |-> 0]

\* floodFill of keepLargestComponents / keepLargestComponent: pops the last
\* index of the stack, skips it when it is labelled or below the threshold,
\* otherwise labels it, counts it and pushes its 4-neighbours that lie
\* inside the grid (left, right, up, down, in that order).
RECURSIVE routeFloodFill(_, _, _, _, _)
routeFloodFill(rawMask, labels, stack, size, label) ==
  IF stack = <<>>
  THEN [labels |-> labels, size |-> size]
  ELSE LET idx  == stack[Len(stack)]
           rest == SubSeq(stack, 1, Len(stack) - 1)
       IN IF labels[idx] # 0 \/ rawMask[idx] < RouteThreshold
          THEN routeFloodFill(rawMask, labels, rest, size, label)
          ELSE LET x == idx % W
                   y == idx \div W
                   pushed == rest
                       \o (IF x > 0 THEN <<idx - 1>> ELSE <<>>)
                       \o (IF x < W - 1 THEN <<idx + 1>> ELSE <<>>)
                       \o (IF y > 0 THEN <<idx - W>> ELSE <<>>)
                       \o (IF y < H - 1 THEN <<idx + W>> ELSE <<>>)
               IN routeFloodFill(rawMask, [labels EXCEPT ![idx] = label],
                                 pushed, size + 1, label)

\* The scan "for (let i = 0; i < width * height; i++)": every unlabelled
\* pixel at or above the threshold starts a flood fill with the next label.
\* componentSizes is the sequence of sizes, indexed by label (a Map iterates
\* in insertion order, and labels are inserted 1, 2, 3, ...).
RECURSIVE routeFindComponents(_, _, _, _)
routeFindComponents(rawMask, i, labels, componentSizes) ==
  IF i >= W * H
  THEN [labels |-> labels, componentSizes |-> componentSizes]
  ELSE IF rawMask[i] >= RouteThreshold /\ labels[i] = 0
       THEN LET r == routeFloodFill(rawMask, labels, <<i>>, 0,
                                    Len(componentSizes) + 1)
            IN routeFindComponents(rawMask, i + 1, r.labels,
                                   Append(componentSizes, r.size))
       ELSE routeFindComponents(rawMask, i + 1, labels, componentSizes)

\* Array.from(entries).sort((a, b) => b[1] - a[1]).slice(0, n): the sort is
\* stable, so a label comes before every smaller component and before every
\* equal-sized component with a larger label. A label is in the slice iff
\* fewer than n labels come before it.
sortedSlice(sizes, n) ==
  { l \in 1 .. Len(sizes) :
      Cardinality({ k \in 1 .. Len(sizes) :
                      sizes[k] > sizes[l] \/ (sizes[k] = sizes[l] /\ k < l) }) < n }

\* keepLargestComponents (detect-wheels): 255 on the pixels whose label is
\* among the maxComponents largest, 0 elsewhere.
keepLargestComponents(rawMask, maxComponents) ==
  LET c == routeFindComponents(rawMask, 0, NoLabels, <<>>)
      keepLabels == sortedSlice(c.componentSizes, maxComponents)
  IN [i \in Pixels |-> IF c.labels[i] \in keepLabels THEN 255 ELSE 0]

\* "for (const [label, size] of componentSizes) if (size > largestSize)":
\* the first label of the largest size, or 0 when there is no component.
RECURSIVE largestLabelFrom(_, _, _, _)
largestLabelFrom(sizes, k, largestLabel, largestSize) ==
  IF k > Len(sizes) THEN largestLabel
  ELSE IF sizes[k] > largestSize
       THEN largestLabelFrom(sizes, k + 1, k, sizes[k])
       ELSE largestLabelFrom(sizes, k + 1, largestLabel, largestSize)

\* keepLargestComponent (detect-body): 255 on the pixels whose label equals
\* largestLabel, 0 elsewhere.
keepLargestComponent(rawMask) ==
  LET c == routeFindComponents(rawMask, 0, NoLabels, <<>>)
      largestLabel == largestLabelFrom(c.componentSizes, 1, 0, 0)
  IN [i \in Pixels |-> IF c.labels[i] = largestLabel THEN 255 ELSE 0]

\* keepLargestComponent (paint-body): the same function, copied into the
\* paint route.
paintKeepLargestComponent(rawMask) ==
  LET c == routeFindComponents(rawMask, 0, NoLabels, <<>>)
      largestLabel == largestLabelFrom(c.componentSizes, 1, 0, 0)
  IN [i \in Pixels |-> IF c.labels[i] = largestLabel THEN 255 ELSE 0]

\* binaryMask[i] = r > 128 ? 1 : 0 (mask-utils).
binaryMaskOf(data) ==
  [i \in Pixels |-> IF data[i] > UtilThreshold THEN 1 ELSE 0]

\* floodFill of mask-utils: the stack holds <<x, y>> pairs; a popped pair is
\* skipped when it lies outside the grid, is background or is labelled;
\* otherwise it is labelled and its four neighbours are pushed unchecked.
RECURSIVE floodFill(_, _, _, _, _)
floodFill(binaryMask, labels, stack, pixels, label) ==
  IF stack = <<>>
  THEN [labels |-> labels, pixels |-> pixels]
  ELSE LET xy   == stack[Len(stack)]
           x    == xy[1]
           y    == xy[2]
           idx  == y * W + x
           rest == SubSeq(stack, 1, Len(stack) - 1)
       IN IF x < 0 \/ x >= W \/ y < 0 \/ y >= H
          THEN floodFill(binaryMask, labels, rest, pixels, label)
          ELSE IF binaryMask[idx] # 1 \/ labels[idx] # 0
               THEN floodFill(binaryMask, labels, rest, pixels, label)
               ELSE floodFill(binaryMask, [labels EXCEPT ![idx] = label],
                              rest \o << <<x + 1, y>>, <<x - 1, y>>,
                                         <<x, y + 1>>, <<x, y - 1>> >>,
                              pixels + 1, label)

\* The y/x scan of filterMaskToLargestRegions; regions is the sequence of
\* pixel counts, indexed by region id.
RECURSIVE utilFindRegions(_, _, _, _)
utilFindRegions(binaryMask, idx, labels, regions) ==
  IF idx >= W * H
  THEN [labels |-> labels, regions |-> regions]
  ELSE IF binaryMask[idx] = 1 /\ labels[idx] = 0
       THEN LET r == floodFill(binaryMask, labels, << <<idx % W, idx \div W>> >>,
                               0, Len(regions) + 1)
            IN utilFindRegions(binaryMask, idx + 1, r.labels,
                               Append(regions, r.pixels))
       ELSE utilFindRegions(binaryMask, idx + 1, labels, regions)

\* filterMaskToLargestRegions: regions sorted by pixel count (largest first,
\* stable), the first keepCount kept; the output's R channel.
filterMaskToLargestRegions(data, keepCount) ==
  LET c == utilFindRegions(binaryMaskOf(data), 0, NoLabels, <<>>)
      keepLabels == sortedSlice(c.regions, keepCount)
  IN [i \in Pixels |-> IF c.labels[i] \in keepLabels THEN 255 ELSE 0]

\* --------------------------------------------- the region filters, run

\* No photograph is loaded in the editor.
EditorIdle ==
  /\ originalImage = Null
  /\ wheelMask = Null /\ wheelSam = Null
  /\ bodyMask = Null /\ bodySam = Null
  /\ wheelCut = Null /\ wheelLayer = Null
  /\ paintCut = Null /\ paintLayer = Null
  /\ wheelVisible = TRUE /\ paintVisible = TRUE
  /\ canvas = Null

InitFilter ==
  /\ inMask \in [Pixels -> FilterLevels]
  /\ keep \in Keeps
  /\ outMask = Null
  /\ filterFn = "none"
  /\ EditorIdle /\ RequestIdle /\ SamIdle /\ UploadIdle /\ LayersIdle /\ DiffIdle /\ BlendIdle /\ AlignIdle /\ SessionIdle /\ CompositeIdle

\* detect-wheels: keepLargestComponents(resizedMaskBuffer, w, h, 4); the
\* function itself takes any keep.
RunKeepLargestComponents ==
  /\ filterFn = "none"
  /\ outMask' = keepLargestComponents(inMask, keep)
  /\ filterFn' = "keepLargestComponents"
  /\ UNCHANGED <<inMask, keep>>
  /\ UNCHANGED nonFilterVars

\* detect-body: keepLargestComponent(resizedMaskBuffer, w, h), the filter
\* with keep = 1.
RunKeepLargestComponent ==
  /\ filterFn = "none"
  /\ keep = 1
  /\ outMask' = keepLargestComponent(inMask)
  /\ filterFn' = "keepLargestComponent"
  /\ UNCHANGED <<inMask, keep>>
  /\ UNCHANGED nonFilterVars

\* paint-body: its own copy of keepLargestComponent.
RunPaintKeepLargestComponent ==
  /\ filterFn = "none"
  /\ keep = 1
  /\ outMask' = paintKeepLargestComponent(inMask)
  /\ filterFn' = "paintKeepLargestComponent"
  /\ UNCHANGED <<inMask, keep>>
  /\ UNCHANGED nonFilterVars

\* mask-utils: filterMaskToLargestRegions(maskInput, keepCount).
RunFilterMaskToLargestRegions ==
  /\ filterFn = "none"
  /\ outMask' = filterMaskToLargestRegions(inMask, keep)
  /\ filterFn' = "filterMaskToLargestRegions"
  /\ UNCHANGED <<inMask, keep>>
  /\ UNCHANGED nonFilterVars

NextFilter ==
  \/ RunKeepLargestComponents
  \/ RunKeepLargestComponent
  \/ RunPaintKeepLargestComponent
  \/ RunFilterMaskToLargestRegions

SpecFilter == InitFilter /\ [][NextFilter]_vars

\* ------------------------------------------------------ rasters, inputs

\* The resolution at which a collaborator returns a raster that has to be
\* aligned (anything other than W x H).
LowW == 2
LowH == 2

\* A mask or candidate as it travels: its dimensions and its pixels.
Raster(w, h, data) == [width |-> w, height |-> h, data |-> data]

\* Foreground and background intensity of an input mask: a clean binary
\* mask, one whose foreground sits exactly on the threshold, and a soft one.
Styles == { <<255, 0>>, <<128, 0>>, <<200, 100>> }

\* The shapes of the input masks on a w x h grid: nothing, everything, a
\* checkerboard (isolated pixels), the left column, the top row, and the
\* left column with the far corner (two components of different sizes).
ShapesOn(w, h) ==
  { {},
    0 .. (w * h - 1),
    { i \in 0 .. (w * h - 1) : ((i % w) + (i \div w)) % 2 = 0 },
    { i \in 0 .. (w * h - 1) : i % w = 0 },
    { i \in 0 .. (w * h - 1) : i \div w = 0 },
    { i \in 0 .. (w * h - 1) : i % w = 0 \/ i = w * h - 1 } }

MaskOn(w, h, S, st) ==
  Raster(w, h, [i \in 0 .. (w * h - 1) |-> IF i \in S THEN st[1] ELSE st[2]])

\* The masks a segmentation call returns or a caller posts.
MaskInputs ==
  { MaskOn(W, H, S, st) : S \in ShapesOn(W, H), st \in Styles }
    \cup { MaskOn(LowW, LowH, S, <<255, 0>>) :
             S \in { {0}, {0, LowW * LowH - 1} } }

\* Photographs: every pixel of a photograph has its own colour.
Originals ==
  { [p \in Pixels |-> <<10 + p, 20 + p, 30 + p>>],
    [p \in Pixels |-> <<250 - p, 128, p>>] }

\* Full-frame outputs of the generative model, differing from the
\* photographs at every pixel.
CandidateRasters ==
  { [p \in Pixels |-> <<200 - p, 100 + p, 50>>],
    [p \in Pixels |-> <<255, 0, 0>>] }

CandidateInputs ==
  { Raster(W, H, c) : c \in CandidateRasters }
    \cup { Raster(LowW, LowH, [i \in 0 .. (LowW * LowH - 1) |-> <<i, i, i>>]) }

\* ------------------------------------------------------- mask alignment

\* sharp(...).resize(w, h, { fit: "fill", kernel: "nearest" }): every output
\* pixel takes the value of the source pixel its position scales to.
resizeNearest(m, w, h) ==
  [i \in 0 .. (w * h - 1) |->
     m.data[(((i \div w) * m.height) \div h) * m.width
            + (((i % w) * m.width) \div w)]]

\* "if (meta.width !== originalWidth || meta.height !== originalHeight)
\* resize": a mask that already has the photograph's size is left as it is.
alignMask(m) ==
  IF m.width # W \/ m.height # H THEN resizeNearest(m, W, H) ELSE m.data

\* The candidate is resized with kernel "lanczos3" when its size differs.
\* The resampled colours are the library's; any frame may result.
alignCandidate(c) ==
  IF c.width # W \/ c.height # H THEN CandidateRasters ELSE {c.data}

\* --------------------------------------------------- the server routes

\* detect-wheels without its region filter.
detectWheelsUnfiltered(sam) ==
  Raster(W, H, alignMask(sam))

\* detect-wheels: the segmentation output is aligned, then filtered with
\* keepLargestComponents(..., 4); the response's wheelMask.
detectWheels(sam) ==
  Raster(W, H, keepLargestComponents(alignMask(sam), WheelKeep))

\* detect-body: aligned, then keepLargestComponent; the response's bodyMask.
detectBody(sam) ==
  Raster(W, H, keepLargestComponent(alignMask(sam)))

\* A cutout that decides alpha by the threshold instead of copying it.
cutWheelLayerThresholded(generatedRaw, maskRaw) ==
  [i \in Pixels |-> <<generatedRaw[i][1], generatedRaw[i][2],
                      generatedRaw[i][3],
                      IF maskRaw[i] >= 128 THEN 255 ELSE 0>>]

\* replace-wheels, "Create transparent layer: only wheel pixels are
\* visible": RGB from the generated frame, alpha from the mask.
cutWheelLayer(generatedRaw, maskRaw) ==
  [i \in Pixels |-> <<generatedRaw[i][1], generatedRaw[i][2],
                      generatedRaw[i][3], maskRaw[i]>>]

\* A cutout that leaves the generated frame opaque everywhere.
cutBodyLayerOpaque(generatedRaw, maskRaw) ==
  [i \in Pixels |-> <<generatedRaw[i][1], generatedRaw[i][2],
                      generatedRaw[i][3], 255>>]

\* paint-body, "Create transparent layer: only body pixels are visible".
cutBodyLayer(generatedRaw, maskRaw) ==
  [i \in Pixels |-> <<generatedRaw[i][1], generatedRaw[i][2],
                      generatedRaw[i][3], maskRaw[i]>>]

\* A subtraction that forgets the wheel test.
combinedIgnoringWheels(bodyRaw, wheelRaw) ==
  [i \in Pixels |-> IF bodyRaw[i] > 128 THEN 255 ELSE 0]

\* paint-body, "Subtracting wheels from body mask":
\* combined[i] = bodyRaw[i] > 128 && wheelRaw[i] < 128 ? 255 : 0.
combined(bodyRaw, wheelRaw) ==
  [i \in Pixels |-> IF bodyRaw[i] > 128 /\ wheelRaw[i] < 128 THEN 255 ELSE 0]

\* paint-body: the body mask is the caller's or, without one, a fresh
\* detection filtered with keepLargestComponent.
paintBodyMask(precomputedBodyMask, sam) ==
  IF precomputedBodyMask # Null
  THEN precomputedBodyMask
  ELSE Raster(W, H, paintKeepLargestComponent(alignMask(sam)))

\* A paint route that never subtracts the wheel mask.
finalBodyMaskNoSubtraction(bodyRaw, wheelRaw) == bodyRaw

\* paint-body: the mask the cutout uses. bodyRaw and wheelRaw are the
\* aligned masks; without a wheel mask the body mask is used as it is.
finalBodyMask(bodyRaw, wheelRaw) ==
  IF wheelRaw # Null THEN combined(bodyRaw, wheelRaw) ELSE bodyRaw

\* --------------------------------------------------- the editor canvas

\* One channel of the canvas's source-over compositing at alpha a.
overChannel(src, dst, a) == (src * a + dst * (255 - a) + 127) \div 255

\* A draw that replaces the pixels below instead of compositing over them.
drawImageCopy(img, dst) ==
  [p \in Pixels |-> <<img[p][1], img[p][2], img[p][3]>>]

\* ctx.drawImage(img, 0, 0, canvas.width, canvas.height) of an RGBA layer
\* of the canvas's size over the pixels already drawn.
drawImage(img, dst) ==
  [p \in Pixels |-> << overChannel(img[p][1], dst[p][1], img[p][4]),
                       overChannel(img[p][2], dst[p][2], img[p][4]),
                       overChannel(img[p][3], dst[p][3], img[p][4]) >>]

\* The composite effect: clear, draw the photograph, then the wheel layer if
\* there is one and it is visible, then the paint layer on top.
composite(original, wLayer, pLayer, wVisible, pVisible) ==
  LET wheelImg == IF wLayer # Null /\ wVisible THEN wLayer ELSE Null
      paintImg == IF pLayer # Null /\ pVisible THEN pLayer ELSE Null
      base     == original
      withWheel == IF wheelImg # Null THEN drawImage(wheelImg, base) ELSE base
  IN IF paintImg # Null THEN drawImage(paintImg, withWheel) ELSE withWheel

\* ------------------------------------- the editor and its requests, run

FilterIdle ==
  /\ inMask = Null /\ keep = 0 /\ outMask = Null /\ filterFn = "none"

\* A photograph has been uploaded; no mask has arrived and nothing has been
\* generated. The canvas shows the photograph.
InitEditor ==
  /\ FilterIdle /\ RequestIdle /\ SamIdle /\ UploadIdle /\ LayersIdle /\ DiffIdle /\ BlendIdle /\ AlignIdle /\ SessionIdle /\ CompositeIdle
  /\ originalImage \in Originals
  /\ wheelMask = Null /\ wheelSam = Null
  /\ bodyMask = Null /\ bodySam = Null
  /\ wheelCut = Null /\ wheelLayer = Null
  /\ paintCut = Null /\ paintLayer = Null
  /\ wheelVisible = TRUE /\ paintVisible = TRUE
  /\ canvas = composite(originalImage, Null, Null, TRUE, TRUE)

\* The masks arrive before anything is generated: the editor refuses a
\* click while a mask is still loading.
NothingGenerated == wheelLayer = Null /\ paintLayer = Null

\* Upload-time wheel detection: the detect-wheels response is kept as the
\* wheel mask.
DetectWheels ==
  \E sam \in MaskInputs :
    /\ wheelMask = Null
    /\ NothingGenerated
    /\ wheelMask' = detectWheels(sam)
    /\ wheelSam' = sam
    /\ UNCHANGED <<originalImage, bodyMask, bodySam, wheelCut, wheelLayer,
                   paintCut, paintLayer, wheelVisible, paintVisible, canvas>>
    /\ UNCHANGED nonEditorVars

\* Upload-time body detection: the detect-body response is kept.
DetectBody ==
  \E sam \in MaskInputs :
    /\ bodyMask = Null
    /\ NothingGenerated
    /\ bodyMask' = detectBody(sam)
    /\ bodySam' = sam
    /\ UNCHANGED <<originalImage, wheelMask, wheelSam, wheelCut, wheelLayer,
                   paintCut, paintLayer, wheelVisible, paintVisible, canvas>>
    /\ UNCHANGED nonEditorVars

\* A caller that posts a wheel mask of its own (formData "wheelMask").
SupplyWheelMask ==
  \E m \in MaskInputs :
    /\ wheelMask = Null
    /\ NothingGenerated
    /\ wheelMask' = m
    /\ UNCHANGED <<originalImage, wheelSam, bodyMask, bodySam, wheelCut,
                   wheelLayer, paintCut, paintLayer, wheelVisible,
                   paintVisible, canvas>>
    /\ UNCHANGED nonEditorVars

\* A caller that posts a body mask of its own (formData "bodyMask").
SupplyBodyMask ==
  \E m \in MaskInputs :
    /\ bodyMask = Null
    /\ NothingGenerated
    /\ bodyMask' = m
    /\ UNCHANGED <<originalImage, wheelMask, wheelSam, bodySam, wheelCut,
                   wheelLayer, paintCut, paintLayer, wheelVisible,
                   paintVisible, canvas>>
    /\ UNCHANGED nonEditorVars

\* replace-wheels, for a request that carries a wheel mask (without one the
\* route answers 400): the generated frame and the mask are aligned, the
\* layer is cut out, the editor stores and shows it.
ReplaceWheels ==
  \E cand \in CandidateInputs :
    \E generatedRaw \in alignCandidate(cand) :
      LET maskRaw == alignMask(wheelMask)
          layer   == cutWheelLayer(generatedRaw, maskRaw)
      IN /\ wheelMask # Null
         /\ wheelLayer = Null
         /\ wheelCut' = [generatedRaw |-> generatedRaw, maskRaw |-> maskRaw]
         /\ wheelLayer' = layer
         /\ wheelVisible' = TRUE
         /\ canvas' = composite(originalImage, layer, paintLayer, TRUE,
                                paintVisible)
         /\ UNCHANGED <<originalImage, wheelMask, wheelSam, bodyMask, bodySam,
                        paintCut, paintLayer, paintVisible>>
         /\ UNCHANGED nonEditorVars

\* paint-body: body mask (the caller's or freshly detected), minus the wheel
\* mask when the request carries one; the layer is cut out, stored, shown.
PaintBody ==
  \E cand \in CandidateInputs :
    \E generatedRaw \in alignCandidate(cand) :
      \E sam \in (IF bodyMask # Null THEN {Null} ELSE MaskInputs) :
        LET bodyRaw  == alignMask(paintBodyMask(bodyMask, sam))
            wheelRaw == IF wheelMask # Null THEN alignMask(wheelMask) ELSE Null
            maskRaw  == finalBodyMask(bodyRaw, wheelRaw)
            layer    == cutBodyLayer(generatedRaw, maskRaw)
        IN /\ paintLayer = Null
           /\ paintCut' = [generatedRaw |-> generatedRaw, maskRaw |-> maskRaw,
                           bodyRaw |-> bodyRaw, wheelRaw |-> wheelRaw,
                           sam |-> sam]
           /\ paintLayer' = layer
           /\ paintVisible' = TRUE
           /\ canvas' = composite(originalImage, wheelLayer, layer,
                                  wheelVisible, TRUE)
           /\ UNCHANGED <<originalImage, wheelMask, wheelSam, bodyMask,
                          bodySam, wheelCut, wheelLayer, wheelVisible>>
           /\ UNCHANGED nonEditorVars

\* A click on the selected wheel toggles the wheel layer's visibility.
ToggleWheelVisible ==
  /\ wheelLayer # Null
  /\ wheelVisible' = ~wheelVisible
  /\ canvas' = composite(originalImage, wheelLayer, paintLayer,
                         ~wheelVisible, paintVisible)
  /\ UNCHANGED <<originalImage, wheelMask, wheelSam, bodyMask, bodySam,
                 wheelCut, wheelLayer, paintCut, paintLayer, paintVisible>>
  /\ UNCHANGED nonEditorVars

\* A click on the selected paint toggles the paint layer's visibility.
TogglePaintVisible ==
  /\ paintLayer # Null
  /\ paintVisible' = ~paintVisible
  /\ canvas' = composite(originalImage, wheelLayer, paintLayer,
                         wheelVisible, ~paintVisible)
  /\ UNCHANGED <<originalImage, wheelMask, wheelSam, bodyMask, bodySam,
                 wheelCut, wheelLayer, paintCut, paintLayer, wheelVisible>>
  /\ UNCHANGED nonEditorVars

Next ==
  \/ DetectWheels
  \/ DetectBody
  \/ SupplyWheelMask
  \/ SupplyBodyMask
  \/ ReplaceWheels
  \/ PaintBody
  \/ ToggleWheelVisible
  \/ TogglePaintVisible

Spec == InitEditor /\ [][Next]_vars

\* ------------------------------------- one request to a layer route, run

\* What a form field or a buffer can be: absent, a decodable image, or
\* bytes the image library cannot decode.
Fields == {"none", "ok", "corrupt"}

\* selectedWheel / selectedPaint: absent, an id of the route's catalog
\* (WHEEL_CONFIG, PAINT_COLORS), or any other id.
Selections == {"none", "known", "unknown"}

\* The requests a client can post.
Forms(r) ==
  [auth : BOOLEAN, image : Fields, wheelMask : Fields,
   bodyMask : IF r = "paint-body" THEN Fields ELSE {"none"},
   selection : Selections]

\* NextResponse.json(body, { status }).
Response(status, err, message, layerUrl) ==
  [status |-> status, error |-> err, message |-> message,
   layerUrl |-> layerUrl]

\* A catch block that hands back what had been produced so far.
caughtWithPartialLayer(r, message) ==
  Response(500, "Layer incomplete", message, "data:image/png;base64")

\* The catch block of a route: status 500, the route's error text and the
\* message of whatever was thrown.
caught(r, message) ==
  Response(500,
           IF r = "replace-wheels" THEN "Wheel replacement failed"
                                   ELSE "Body painting failed",
           message, null)

\* A validation that forgets to require the wheel mask.
validationWithoutMaskCheck(r, f) ==
  IF ~f.auth THEN Response(401, "Authentication Invalid", "Missing", null)
  ELSE IF f.image = "none" THEN Response(400, "No image provided", null, null)
  ELSE IF f.selection # "known"
    THEN Response(400, IF r = "replace-wheels" THEN "Unknown wheel ID"
                                               ELSE "Unknown paint ID",
                  null, null)
  ELSE Null

\* The checks at the head of POST, in the code's order; Null when the
\* request passes. replace-wheels requires the wheel mask, paint-body does
\* not.
validation(r, f) ==
  IF ~f.auth THEN Response(401, "Authentication Invalid", "Missing", null)
  ELSE IF f.image = "none" THEN Response(400, "No image provided", null, null)
  ELSE IF r = "replace-wheels" /\ f.wheelMask = "none"
    THEN Response(400, "No wheel mask provided. Wait for wheel detection to complete.",
                  null, null)
  ELSE IF f.selection # "known"
    THEN Response(400, IF r = "replace-wheels" THEN "Unknown wheel ID"
                                               ELSE "Unknown paint ID",
                  null, null)
  ELSE Null

\* A replace-wheels that cuts the layer out of the candidate as downloaded.
WheelStepsCutoutEarly ==
  <<"validate", "original", "reference", "generate", "download", "alignMask",
    "cutout">>

\* replace-wheels, the awaited steps of POST in the order of the code: the
\* mask is decoded and aligned after the candidate.
WheelSteps ==
  <<"validate", "original", "reference", "generate", "download",
    "alignCandidate", "alignMask", "cutout">>

\* paint-body, the awaited steps of POST in the order of the code.
PaintSteps ==
  <<"validate", "original", "bodyMask", "alignBody", "subtractWheels",
    "generate", "download", "alignCandidate", "cutout">>

Steps(r) == IF r = "replace-wheels" THEN WheelSteps ELSE PaintSteps

\* The request is about to run the step called name.
At(name) ==
  /\ step # 0
  /\ step <= Len(Steps(route))
  /\ Steps(route)[step] = name

\* A request has arrived; the pipeline awaits its mask.
InitRequest ==
  /\ FilterIdle /\ EditorIdle /\ SamIdle /\ UploadIdle /\ LayersIdle /\ DiffIdle /\ BlendIdle /\ AlignIdle /\ SessionIdle /\ CompositeIdle
  /\ route \in {"replace-wheels", "paint-body"}
  /\ form \in Forms(route)
  /\ step = 1
  /\ stages = <<"AwaitingMask">>
  /\ calls = <<>>
  /\ candidate = "none"
  /\ response = Null

nonRequestVars == <<filterVars, editorVars, samVars, uploadVars, layerVars,
                    diffVars, blendVars, alignVars, sessionVars, compositeVars>>

\* A step succeeded, entering the given stages (possibly none).
Proceed(entered) ==
  /\ step' = step + 1
  /\ stages' = stages \o entered
  /\ response' = Null

\* A step threw or returned an error response, after entering the given
\* stages: the response is sent and the request is over.
Abort(entered, resp) ==
  /\ step' = 0
  /\ stages' = stages \o entered \o <<"Failed">>
  /\ response' = resp

\* Token, image, mask and selection checks.
Validate ==
  /\ At("validate")
  /\ IF validation(route, form) = Null
       THEN Proceed(<<>>)
       ELSE Abort(<<>>, validation(route, form))
  /\ UNCHANGED <<route, form, calls, candidate>>
  /\ UNCHANGED nonRequestVars

\* sharp(originalBuffer).metadata(): the photograph's dimensions.
LoadOriginal ==
  /\ At("original")
  /\ IF form.image = "ok"
       THEN Proceed(<<>>)
       ELSE Abort(<<>>, caught(route, "Input buffer contains unsupported image format"))
  /\ UNCHANGED <<route, form, calls, candidate>>
  /\ UNCHANGED nonRequestVars

\* replace-wheels fetches the wheel reference image.
FetchReference ==
  /\ At("reference")
  /\ calls' = Append(calls, "reference")
  /\ \/ Proceed(<<>>)
     \/ Abort(<<>>, caught(route, "Failed to fetch wheel reference: 404"))
  /\ UNCHANGED <<route, form, candidate>>
  /\ UNCHANGED nonRequestVars

\* paint-body takes the caller's body mask, or detects the body now
\* (detectBodyMask) and filters the result.
ObtainBodyMask ==
  /\ At("bodyMask")
  /\ IF form.bodyMask # "none"
       THEN /\ calls' = calls
            /\ Proceed(<<>>)
       ELSE /\ calls' = Append(calls, "segmentation")
            /\ \/ Proceed(<<>>)
               \/ Abort(<<>>, caught(route, "Prediction failed"))
  /\ UNCHANGED <<route, form, candidate>>
  /\ UNCHANGED nonRequestVars

\* paint-body decodes the body mask and resizes it to the photograph.
AlignBodyMask ==
  /\ At("alignBody")
  /\ IF form.bodyMask = "corrupt"
       THEN Abort(<<>>, caught(route, "Input buffer contains unsupported image format"))
       ELSE Proceed(<<>>)
  /\ UNCHANGED <<route, form, calls, candidate>>
  /\ UNCHANGED nonRequestVars

\* paint-body decodes and aligns the wheel mask, if the request has one,
\* and subtracts it; the final body mask is ready.
SubtractWheels ==
  /\ At("subtractWheels")
  /\ IF form.wheelMask = "corrupt"
       THEN Abort(<<>>, caught(route, "Input buffer contains unsupported image format"))
       ELSE Proceed(<<"MaskReady">>)
  /\ UNCHANGED <<route, form, calls, candidate>>
  /\ UNCHANGED nonRequestVars

\* A generative step that calls the model again when it throws.
GenerateWithRetry ==
  /\ At("generate")
  /\ calls' = Append(calls, "generative")
  /\ \/ \E out \in {"data", "url"} :
          /\ candidate' = out
          /\ Proceed(<<"GeneratingCandidate">>)
     \/ /\ candidate' = candidate
        /\ UNCHANGED <<step, stages, response>>
  /\ UNCHANGED <<route, form>>
  /\ UNCHANGED nonRequestVars

\* processQwenImageEdit / processQwenPaint: one run of the generative
\* model, which returns a data URL or a URL, or throws.
Generate ==
  /\ At("generate")
  /\ calls' = Append(calls, "generative")
  /\ \/ \E out \in {"data", "url"} :
          /\ candidate' = out
          /\ Proceed(<<"GeneratingCandidate">>)
     \/ /\ candidate' = candidate
        /\ Abort(<<"GeneratingCandidate">>, caught(route, "Prediction failed"))
  /\ UNCHANGED <<route, form>>
  /\ UNCHANGED nonRequestVars

\* A URL result is downloaded; a data URL is decoded in place.
Download ==
  /\ At("download")
  /\ IF candidate = "url"
       THEN /\ calls' = Append(calls, "download")
            /\ \/ Proceed(<<>>)
               \/ Abort(<<>>, caught(route, "Failed to download result: 503"))
       ELSE /\ calls' = calls
            /\ Proceed(<<>>)
  /\ UNCHANGED <<route, form, candidate>>
  /\ UNCHANGED nonRequestVars

\* The candidate's metadata is read and the candidate resized to the
\* photograph; bytes that are no image make sharp throw.
AlignCandidate ==
  /\ At("alignCandidate")
  /\ \/ Proceed(<<"CandidateReady">>)
     \/ Abort(<<>>, caught(route, "Input buffer contains unsupported image format"))
  /\ UNCHANGED <<route, form, calls, candidate>>
  /\ UNCHANGED nonRequestVars

\* replace-wheels decodes the wheel mask and resizes it to the photograph.
AlignWheelMask ==
  /\ At("alignMask")
  /\ IF form.wheelMask = "corrupt"
       THEN Abort(<<>>, caught(route, "Input buffer contains unsupported image format"))
       ELSE Proceed(<<"MaskReady">>)
  /\ UNCHANGED <<route, form, calls, candidate>>
  /\ UNCHANGED nonRequestVars

\* Raw pixels, the cutout loop, the PNG encoding and the success response.
Cutout ==
  /\ At("cutout")
  /\ \/ /\ step' = 0
        /\ stages' = stages \o <<"Compositing", "LayerReady">>
        /\ response' = Response(200, null,
                                IF route = "replace-wheels"
                                  THEN "Wheels replaced successfully"
                                  ELSE "Body painted successfully",
                                "data:image/png;base64")
     \/ Abort(<<"Compositing">>, caught(route, "Input image exceeds pixel limit"))
  /\ UNCHANGED <<route, form, calls, candidate>>
  /\ UNCHANGED nonRequestVars

NextRequest ==
  \/ Validate
  \/ LoadOriginal
  \/ FetchReference
  \/ ObtainBodyMask
  \/ AlignBodyMask
  \/ SubtractWheels
  \/ Generate
  \/ Download
  \/ AlignCandidate
  \/ AlignWheelMask
  \/ Cutout

SpecRequest == InitRequest /\ [][NextRequest]_vars

\* --------------------------------------------- what a layer route owes

\* The stages in the order the pipeline is specified to pass through them.
StageOrder ==
  <<"AwaitingMask", "MaskReady", "GeneratingCandidate", "CandidateReady",
    "Compositing", "LayerReady">>

\* The order replace-wheels passes through them: the mask is only required
\* to be present before the generative call, and is decoded and aligned
\* after the candidate.
WheelStageOrder ==
  <<"AwaitingMask", "GeneratingCandidate", "CandidateReady", "MaskReady",
    "Compositing", "LayerReady">>

\* The stages entered, without a final Failed.
Passed ==
  IF stages[Len(stages)] = "Failed" THEN SubSeq(stages, 1, Len(stages) - 1)
                                    ELSE stages

\* s is an initial part of t.
IsPrefix(s, t) == Len(s) <= Len(t) /\ SubSeq(t, 1, Len(s)) = s

\* Failed, once entered, is the last stage: the request has ended with an
\* error response and runs no further step.
FailedIsTerminal ==
  \A i \in DOMAIN stages :
    stages[i] = "Failed" =>
      /\ i = Len(stages)
      /\ step = 0
      /\ response # Null /\ response.layerUrl = null

Times(call) == Cardinality({ i \in DOMAIN calls : calls[i] = call })

\* C11 as claimed: in every run of the wheel and paint routes the stages
\* are entered strictly in the order AwaitingMask, MaskReady,
\* GeneratingCandidate, CandidateReady, Compositing, LayerReady, and Failed
\* is terminal.
C11_StagesInSpecifiedOrder ==
  /\ IsPrefix(Passed, StageOrder)
  /\ FailedIsTerminal

\* C11 as amended: paint-body enters the stages in the specified order;
\* replace-wheels requires the mask to be present before the generative
\* call but decodes and aligns it after the candidate is aligned
\* (AwaitingMask, GeneratingCandidate, CandidateReady, MaskReady,
\* Compositing, LayerReady). In both the cutout never starts before the
\* candidate and the mask are aligned, and Failed is terminal.
C11_StagesInCodeOrder ==
  /\ route = "paint-body" => IsPrefix(Passed, StageOrder)
  /\ route = "replace-wheels" => IsPrefix(Passed, WheelStageOrder)
  /\ Times("generative") > 0 =>
       IF route = "replace-wheels" THEN form.wheelMask # "none"
       ELSE \E i, j \in DOMAIN stages :
              i < j /\ stages[i] = "MaskReady"
                    /\ stages[j] = "GeneratingCandidate"
  /\ \A k \in DOMAIN stages :
       stages[k] = "Compositing" =>
         \E i, j \in 1 .. (k - 1) :
           stages[i] = "CandidateReady" /\ stages[j] = "MaskReady"
  /\ FailedIsTerminal

\* A replace-wheels request that went through every stage.
C11_Witness ==
  /\ route = "replace-wheels"
  /\ stages = WheelStageOrder
  /\ response # Null /\ response.layerUrl # null

\* C12 as claimed: a request in which any stage failed is answered with an
\* error kind plus a message and no layer; a response carries a layer only
\* if every stage succeeded.
C12_FailureGivesErrorAndMessage ==
  response # Null =>
    /\ stages[Len(stages)] = "Failed" =>
         /\ response.error # null
         /\ response.message # null
         /\ response.layerUrl = null
    /\ response.layerUrl # null =>
         /\ Len(stages) = Len(StageOrder)
         /\ \A i \in DOMAIN StageOrder :
              \E j \in DOMAIN stages : stages[j] = StageOrder[i]

\* C12 as amended: a request in which any stage failed is answered with an
\* error status and an error text and no layer; the response also has a
\* message unless it is a 400 rejection by validation (missing image,
\* missing wheel mask, unknown selection). A response carries a layer only
\* if every stage succeeded.
C12_FailureGivesErrorNoLayer ==
  response # Null =>
    /\ stages[Len(stages)] = "Failed" =>
         /\ response.status >= 400
         /\ response.error # null
         /\ response.layerUrl = null
         /\ response.message = null =>
              response.status = 400 /\ calls = <<>>
    /\ response.layerUrl # null =>
         /\ response.status = 200
         /\ Len(stages) = Len(StageOrder)
         /\ \A i \in DOMAIN StageOrder :
              \E j \in DOMAIN stages : stages[j] = StageOrder[i]

\* The last stage, the cutout, fails after the candidate and the mask were
\* ready: the response is an error with a message and has no layer.
C12_Witness ==
  /\ response # Null
  /\ Len(stages) > 2
  /\ stages[Len(stages) - 1] = "Compositing"
  /\ stages[Len(stages)] = "Failed"
  /\ response.status = 500
  /\ response.message # null
  /\ response.layerUrl = null

\* A request that validation has to reject for its mask or its selection.
Rejectable ==
  \/ route = "replace-wheels" /\ form.wheelMask = "none"
  \/ form.selection # "known"

C14_GenerativeCalledOnce ==
  /\ Times("generative") <= 1
  /\ (Times("generative") = 1 /\ candidate = "none") =>
       /\ step = 0
       /\ stages[Len(stages)] = "Failed"
       /\ response # Null /\ response.status = 500
       /\ response.layerUrl = null

\* The generative call failed; the request is over with an error.
C14_Witness ==
  /\ Times("generative") = 1
  /\ candidate = "none"
  /\ step = 0
  /\ response # Null /\ response.status = 500

\* ------------------------------------------- segmentWithSam3, one call

\* const maxRetries = 2.
maxRetries == 2

\* Error messages, as their words. An attempt fails when the model run
\* fails, when its output has no usable form, or when the ZIP cannot be
\* downloaded or holds no PNG.
SamErrors ==
  { <<"Prediction", "failed">>,
    <<"Unexpected", "SAM3", "output", "format">>,
    <<"Failed", "to", "download", "ZIP:", "500">>,
    <<"No", "PNG", "files", "found", "in", "ZIP">>,
    <<"Invalid", "token">>,
    <<"Request", "failed", "with", "status", "401">> }

\* message.includes(word), at the granularity of words.
includes(message, word) == \E i \in DOMAIN message : message[i] = word

\* A loop that retries whatever the error says.
dontRetryNothing(message) == FALSE

\* "Don't retry on certain errors": the message mentions the token or 401.
dontRetry(message) == includes(message, "token") \/ includes(message, "401")

\* What one replicate.run with the extraction that follows it yields.
Ok(mask) == [ok |-> TRUE, mask |-> mask]
Failure(message) == [ok |-> FALSE, message |-> message]

\* detectWheelsMask or detectBodyMask calls segmentWithSam3.
InitSam ==
  /\ FilterIdle /\ EditorIdle /\ RequestIdle /\ UploadIdle /\ LayersIdle
  /\ DiffIdle /\ BlendIdle /\ AlignIdle /\ SessionIdle /\ CompositeIdle
  /\ samPrompt \in {"car wheel rim tire", "car"}
  /\ samToken \in BOOLEAN
  /\ samPc = "start"
  /\ attempt = 0
  /\ samRuns = <<>>
  /\ samWaited = 0
  /\ lastError = Null
  /\ samResult = Null

nonSamVars == <<filterVars, editorVars, requestVars, uploadVars, layerVars,
                diffVars, blendVars, alignVars, sessionVars, compositeVars>>

\* getReplicate() throws without a token; otherwise the loop is entered
\* with attempt = 1.
SamStart ==
  /\ samPc = "start"
  /\ IF samToken
       THEN /\ attempt' = 1
            /\ samPc' = "attempt"
            /\ samResult' = samResult
       ELSE /\ attempt' = attempt
            /\ samPc' = "thrown"
            /\ samResult' = Failure(<<"REPLICATE_API_TOKEN", "environment",
                                      "variable", "is", "not", "set">>)
  /\ UNCHANGED <<samPrompt, samToken, samRuns, samWaited, lastError>>
  /\ UNCHANGED nonSamVars

\* "if (attempt > 1) await new Promise(r => setTimeout(r, 1000 * attempt))".
SamBackoff ==
  /\ samPc = "backoff"
  /\ samWaited' = samWaited + 1000 * attempt
  /\ samPc' = "attempt"
  /\ UNCHANGED <<samPrompt, samToken, attempt, samRuns, lastError, samResult>>
  /\ UNCHANGED nonSamVars

\* One pass of the try block: replicate.run and the extraction of the mask.
\* Success returns; a failure is recorded, ends the loop when dontRetry
\* says so or when attempt reaches maxRetries (lastError is thrown), and
\* otherwise leads to the next attempt.
SamAttempt ==
  /\ samPc = "attempt"
  /\ \/ \E mask \in MaskInputs :
          /\ samRuns' = Append(samRuns, Ok(mask))
          /\ samResult' = Ok(mask)
          /\ samPc' = "returned"
          /\ UNCHANGED <<attempt, lastError>>
     \/ \E message \in SamErrors :
          /\ samRuns' = Append(samRuns, Failure(message))
          /\ lastError' = message
          /\ IF dontRetry(message) \/ attempt + 1 > maxRetries
               THEN /\ samPc' = "thrown"
                    /\ samResult' = Failure(message)
                    /\ attempt' = attempt
               ELSE /\ samPc' = "backoff"
                    /\ samResult' = samResult
                    /\ attempt' = attempt + 1
  /\ UNCHANGED <<samPrompt, samToken, samWaited>>
  /\ UNCHANGED nonSamVars

NextSam ==
  \/ SamStart
  \/ SamBackoff
  \/ SamAttempt

SpecSam == InitSam /\ [][NextSam]_vars

\* --------------------------------------------- what segmentWithSam3 owes

\* C15: segmentWithSam3 runs the segmentation model at most 2 times per
\* call; a generic failure of attempt 1 is followed by exactly one retry
\* after a backoff; a token / authentication error is never retried; a
\* successful attempt returns its mask without further attempts; when
\* every attempt fails the call throws the last error.
C15_AtMostTwoAttempts ==
  /\ Len(samRuns) <= 2
  /\ \A i \in DOMAIN samRuns :
       i < Len(samRuns) => ~samRuns[i].ok /\ ~includes(samRuns[i].message, "token")
                                          /\ ~includes(samRuns[i].message, "401")
  /\ samPc \in {"returned", "thrown"} =>
       /\ (Len(samRuns) >= 1 /\ ~samRuns[1].ok
           /\ ~includes(samRuns[1].message, "token")
           /\ ~includes(samRuns[1].message, "401")) =>
            Len(samRuns) = 2 /\ samWaited = 2000
       /\ Len(samRuns) <= 1 => samWaited = 0
  /\ samPc = "returned" =>
       /\ samRuns[Len(samRuns)].ok
       /\ samResult = samRuns[Len(samRuns)]
  /\ (samPc = "thrown" /\ samRuns # <<>>) =>
       /\ \A i \in DOMAIN samRuns : ~samRuns[i].ok
       /\ samResult = samRuns[Len(samRuns)]

\* Two generic failures with different messages: the second is thrown.
C15_Witness ==
  /\ samPc = "thrown"
  /\ Len(samRuns) = 2
  /\ samRuns[1] # samRuns[2]
  /\ samWaited = 2000
  /\ samResult = samRuns[2]

\* ------------------------------- the upload page and its detection runs

\* Photographs chosen on the upload page before the editor is opened.
MaxUploads == 2

\* What a detection request settles to: a success payload with the mask,
\* a payload without success (the route answered with an error), or a
\* rejected promise (network failure, unparsable body).
Settled == {"ok", "errorPayload", "rejected"}

\* The mask the detection route returns for the u-th photograph.
MaskOf(u, kind) == [upload |-> u, kind |-> kind]

\* sessionStorage before the first upload.
EmptyStorage ==
  [image |-> Null, wheelMask |-> Null, bodyMask |-> Null,
   inProgress |-> FALSE]

InitUpload ==
  /\ FilterIdle /\ EditorIdle /\ RequestIdle /\ SamIdle /\ LayersIdle /\ DiffIdle /\ BlendIdle /\ AlignIdle /\ SessionIdle /\ CompositeIdle
  /\ sessionStorage = EmptyStorage
  /\ uploads = 0
  /\ detection = <<>>

nonUploadVars == <<filterVars, editorVars, requestVars, samVars, layerVars,
                   diffVars, blendVars, alignVars, sessionVars, compositeVars>>

\* handleFile / handleSampleClick: a photograph is chosen (the drop zone,
\* or "Upload Different Photo" once the analysis animation is over) and
\* startDetection sets the in-progress flag.
HandleFile ==
  /\ uploads < MaxUploads
  /\ uploads' = uploads + 1
  /\ detection' = Append(detection, [pc |-> "started", wheel |-> "pending",
                                     body |-> "pending"])
  /\ sessionStorage' = [sessionStorage EXCEPT !.inProgress = TRUE]
  /\ UNCHANGED nonUploadVars

\* startDetection turns the data URL into a blob and issues both requests
\* together; a throw here goes to catch and finally.
IssueRequests(u) ==
  /\ detection[u].pc = "started"
  /\ \/ /\ detection' = [detection EXCEPT ![u].pc = "waiting"]
        /\ UNCHANGED sessionStorage
     \/ /\ detection' = [detection EXCEPT ![u].pc = "done"]
        /\ sessionStorage' = [sessionStorage EXCEPT !.inProgress = FALSE]
  /\ UNCHANGED uploads
  /\ UNCHANGED nonUploadVars

\* The detect-wheels request settles.
WheelSettles(u) ==
  /\ detection[u].pc = "waiting"
  /\ detection[u].wheel = "pending"
  /\ \E outcome \in Settled :
       detection' = [detection EXCEPT ![u].wheel = outcome]
  /\ UNCHANGED <<sessionStorage, uploads>>
  /\ UNCHANGED nonUploadVars

\* The detect-body request settles.
BodySettles(u) ==
  /\ detection[u].pc = "waiting"
  /\ detection[u].body = "pending"
  /\ \E outcome \in Settled :
       detection' = [detection EXCEPT ![u].body = outcome]
  /\ UNCHANGED <<sessionStorage, uploads>>
  /\ UNCHANGED nonUploadVars

\* Promise.allSettled resolves: each mask is stored if its request
\* succeeded, a failure is logged; finally the flag is removed.
StoreResults(u) ==
  /\ detection[u].pc = "waiting"
  /\ detection[u].wheel # "pending"
  /\ detection[u].body # "pending"
  /\ sessionStorage' =
       [sessionStorage EXCEPT
          !.wheelMask = IF detection[u].wheel = "ok" THEN MaskOf(u, "wheel")
                        ELSE @,
          !.bodyMask = IF detection[u].body = "ok" THEN MaskOf(u, "body")
                       ELSE @,
          !.inProgress = FALSE]
  /\ detection' = [detection EXCEPT ![u].pc = "done"]
  /\ UNCHANGED uploads
  /\ UNCHANGED nonUploadVars

\* The editor takes the masks it finds and removes their keys.
EditorTakesMasks ==
  /\ uploads > 0
  /\ sessionStorage.wheelMask # Null \/ sessionStorage.bodyMask # Null
  /\ sessionStorage' = [sessionStorage EXCEPT !.wheelMask = Null,
                                              !.bodyMask = Null]
  /\ UNCHANGED <<uploads, detection>>
  /\ UNCHANGED nonUploadVars

NextUpload ==
  \/ HandleFile
  \/ \E u \in DOMAIN detection : IssueRequests(u)
  \/ \E u \in DOMAIN detection : WheelSettles(u)
  \/ \E u \in DOMAIN detection : BodySettles(u)
  \/ \E u \in DOMAIN detection : StoreResults(u)
  \/ EditorTakesMasks

SpecUpload == InitUpload /\ [][NextUpload]_vars

\* ------------------------------------------ what upload detection owes

\* C16: when the jointly awaited detection requests of an upload have
\* settled, each outcome is recorded on its own: a mask whose request
\* succeeded is stored, a mask whose request failed (rejected, or an error
\* payload) is recorded as absent, in every combination, and the run ends
\* normally (the in-progress flag is cleared).
C16_OutcomesRecordedIndependently ==
  [][ \A u \in DOMAIN detection :
        (detection[u].pc = "waiting" /\ detection'[u].pc = "done") =>
          /\ sessionStorage'.wheelMask =
               (IF detection[u].wheel = "ok" THEN MaskOf(u, "wheel") ELSE Null)
          /\ sessionStorage'.bodyMask =
               (IF detection[u].body = "ok" THEN MaskOf(u, "body") ELSE Null)
          /\ ~sessionStorage'.inProgress ]_vars

\* --------------------------------- from the upload page into the editor

\* The photograph of the u-th upload, as the data URL under tuner-ai-image.
ImageOf(u) == [upload |-> u]

\* The upload page is shown (by itself, or embedded in an editor that has
\* no photograph); the editor's state is its initial one.
InitSession ==
  /\ FilterIdle /\ RequestIdle /\ SamIdle /\ DiffIdle /\ BlendIdle
  /\ AlignIdle /\ CompositeIdle
  /\ sessionStorage = EmptyStorage
  /\ uploads = 0
  /\ detection = <<>>
  /\ entry \in {"navigate", "embedded"}
  /\ editorPc = "closed"
  /\ originalImage = Null
  /\ wheelMask = Null /\ bodyMask = Null
  /\ isLoadingWheelMask = TRUE /\ isLoadingBodyMask = TRUE
  /\ wheelSam = Null /\ bodySam = Null /\ wheelCut = Null
  /\ wheelLayer = Null /\ paintCut = Null /\ paintLayer = Null
  /\ canvas = Null
  /\ wheelVisible = TRUE /\ paintVisible = TRUE
  /\ wheelLayers = Null /\ paintLayers = Null
  /\ selectedWheel = null /\ selectedPaint = null
  /\ viewingOriginal = FALSE
  /\ isProcessing = FALSE /\ processingItem = null
  /\ error = null
  /\ fetching = Null /\ timers = {} /\ requests = <<>>

\* What the mask loading leaves alone.
nonSessionVars ==
  <<filterVars, requestVars, samVars, diffVars, blendVars, alignVars,
    compositeVars,
    uploads, detection, wheelSam, bodySam, wheelCut, wheelLayer, paintCut,
    paintLayer, canvas, wheelVisible, paintVisible, wheelLayers, paintLayers,
    selectedWheel, selectedPaint, viewingOriginal, isProcessing,
    processingItem, error, fetching, timers, requests>>

\* The masks found under the two keys are taken (and their keys removed); a
\* key that is not there leaves the editor's mask as it is.
TakeStoredMasks ==
  /\ wheelMask' = IF sessionStorage.wheelMask # Null
                    THEN sessionStorage.wheelMask ELSE wheelMask
  /\ bodyMask' = IF sessionStorage.bodyMask # Null
                   THEN sessionStorage.bodyMask ELSE bodyMask

\* Another photograph is chosen while the upload page is still shown.
ChoosePhoto ==
  /\ editorPc = "closed"
  /\ HandleFile

\* handleStartCustomizing followed by the embedded upload's onSuccess: the
\* photograph is stored and handed to the editor, which takes the masks
\* stored so far and clears both loading flags.
StartCustomizingEmbedded ==
  /\ entry = "embedded"
  /\ editorPc = "closed"
  /\ uploads > 0
  /\ originalImage' = ImageOf(uploads)
  /\ TakeStoredMasks
  /\ isLoadingWheelMask' = FALSE /\ isLoadingBodyMask' = FALSE
  /\ sessionStorage' = [sessionStorage EXCEPT !.image = ImageOf(uploads),
                                              !.wheelMask = Null,
                                              !.bodyMask = Null]
  /\ editorPc' = "settled"
  /\ UNCHANGED <<entry, nonSessionVars>>

\* handleStartCustomizing on the upload page: the photograph is stored and
\* the router goes to the editor.
StartCustomizing ==
  /\ entry = "navigate"
  /\ editorPc = "closed"
  /\ uploads > 0
  /\ sessionStorage' = [sessionStorage EXCEPT !.image = ImageOf(uploads)]
  /\ editorPc' = "mounting"
  /\ UNCHANGED <<entry, originalImage, wheelMask, bodyMask,
                 isLoadingWheelMask, isLoadingBodyMask, nonSessionVars>>

\* The editor's mount effect: the stored photograph and the stored masks
\* are loaded; while detection is in progress the editor waits for the
\* rest, otherwise the masks that are not there count as failed.
MountEffect ==
  /\ editorPc = "mounting"
  /\ originalImage' = sessionStorage.image
  /\ TakeStoredMasks
  /\ sessionStorage' = [sessionStorage EXCEPT !.wheelMask = Null,
                                              !.bodyMask = Null]
  /\ IF sessionStorage.inProgress
       THEN /\ editorPc' = "polling"
            /\ isLoadingWheelMask' =
                 (isLoadingWheelMask /\ sessionStorage.wheelMask = Null)
            /\ isLoadingBodyMask' =
                 (isLoadingBodyMask /\ sessionStorage.bodyMask = Null)
       ELSE /\ editorPc' = "settled"
            /\ isLoadingWheelMask' = FALSE
            /\ isLoadingBodyMask' = FALSE
  /\ UNCHANGED <<entry, nonSessionVars>>

\* waitForMasks finds the in-progress flag gone: the masks stored meanwhile
\* are taken and both loading flags cleared.
WaitForMasksDone ==
  /\ editorPc = "polling"
  /\ ~sessionStorage.inProgress
  /\ TakeStoredMasks
  /\ sessionStorage' = [sessionStorage EXCEPT !.wheelMask = Null,
                                              !.bodyMask = Null]
  /\ isLoadingWheelMask' = FALSE /\ isLoadingBodyMask' = FALSE
  /\ editorPc' = "settled"
  /\ UNCHANGED <<entry, originalImage, nonSessionVars>>

\* waitForMasks gives up after maxWait = 60000 ms with the flag still set.
WaitForMasksTimeout ==
  /\ editorPc = "polling"
  /\ sessionStorage.inProgress
  /\ isLoadingWheelMask' = FALSE /\ isLoadingBodyMask' = FALSE
  /\ editorPc' = "settled"
  /\ UNCHANGED <<entry, originalImage, wheelMask, bodyMask, sessionStorage,
                 nonSessionVars>>

Detects ==
  \/ \E u \in DOMAIN detection : IssueRequests(u)
  \/ \E u \in DOMAIN detection : WheelSettles(u)
  \/ \E u \in DOMAIN detection : BodySettles(u)
  \/ \E u \in DOMAIN detection : StoreResults(u)

NextSession ==
  \/ ChoosePhoto
  \/ Detects
  \/ StartCustomizingEmbedded
  \/ StartCustomizing
  \/ MountEffect
  \/ WaitForMasksDone
  \/ WaitForMasksTimeout

SpecSession == InitSession /\ [][NextSession]_vars

\* The same, with what the browser guarantees: a started detection run and
\* the editor's effect and polling loop keep making progress.
FairSpecSession ==
  /\ SpecSession
  /\ WF_vars(Detects)
  /\ WF_vars(MountEffect)
  /\ WF_vars(WaitForMasksDone)

\* ------------------------------------------ what the mask hand-over owes

\* C27: the masks the editor holds were computed from the photograph it
\* edits: under every interleaving of uploads and detections the editor
\* never loads a mask produced for another upload.
C27_MasksBelongToImage ==
  /\ wheelMask # Null => wheelMask.upload = originalImage.upload
  /\ bodyMask # Null => bodyMask.upload = originalImage.upload

\* Detection of the wheel (body) mask of the photograph the editor shows
\* has succeeded and stored its mask.
DetectedFor(kind) ==
  /\ editorPc \in {"polling", "settled"}
  /\ originalImage # Null
  /\ originalImage.upload \in DOMAIN detection
  /\ detection[originalImage.upload].pc = "done"
  /\ detection[originalImage.upload][kind] = "ok"

\* C28: if an upload-time detection succeeds, the editor eventually holds
\* that mask and the loading flag is eventually cleared, on both entry
\* paths and whether detection finishes before or after the user proceeds.
C28_DetectedMaskReachesEditor ==
  /\ DetectedFor("wheel") ~>
       (/\ originalImage # Null
        /\ wheelMask = MaskOf(originalImage.upload, "wheel")
        /\ ~isLoadingWheelMask)
  /\ DetectedFor("body") ~>
       (/\ originalImage # Null
        /\ bodyMask = MaskOf(originalImage.upload, "body")
        /\ ~isLoadingBodyMask)

\* ------------------------------------------------ the editor's layer cache

\* Layer requests issued in one editor session.
MaxRequests == 3

\* Two of the four wheels and one of the colours of the side panel.
WheelIds == {"20-sputtering", "19-hyper-silver"}
PaintIds == {"vik-black"}

\* The photograph and the mask strings the upload page leaves behind.
StoredImage == CHOOSE o \in Originals : TRUE
StoredMask == MaskOn(W, H, 0 .. (W * H - 1), <<255, 0>>)

\* const currentWheelLayer = selectedWheel && !viewingOriginal
\*   ? wheelLayers[selectedWheel] || null : null
currentWheelLayer ==
  IF selectedWheel # null /\ ~viewingOriginal
       /\ selectedWheel \in DOMAIN wheelLayers
    THEN wheelLayers[selectedWheel]
    ELSE Null

currentPaintLayer ==
  IF selectedPaint # null /\ ~viewingOriginal
       /\ selectedPaint \in DOMAIN paintLayers
    THEN paintLayers[selectedPaint]
    ELSE Null

\* setWheelLayers / setPaintLayers with an updater that forgets prev.
PutForgettingPrev(layers, itemId, layerUrl) ==
  [i \in {itemId} |-> layerUrl]

\* prev => ({ ...prev, [itemId]: data.layerUrl })
Put(layers, itemId, layerUrl) ==
  [i \in DOMAIN layers \cup {itemId} |->
     IF i = itemId THEN layerUrl ELSE layers[i]]

\* How the awaited fetch of a layer request can end.
Outcomes ==
  {"layer", "noLayer", "errorWithMessage", "errorBare", "networkError"}

\* The message the catch block shows for a failed outcome.
errorMessageOf(outcome) ==
  CASE outcome = "errorWithMessage" -> "Invalid API token"
    [] outcome = "errorBare" -> "Failed to generate layer"
    [] outcome = "noLayer" -> "No layer returned from API"
    [] outcome = "networkError" -> "Failed to fetch"

TimedOut == "Request timed out. Please try again."

\* The endpoint a request goes to.
endpointOf(layerType) ==
  IF layerType = "wheel" /\ wheelMask # Null THEN "/api/replace-wheels"
  ELSE IF layerType = "wheel" THEN "/api/process-car"
  ELSE "/api/paint-body"

\* The editor after its mount effect: the photograph of the upload page, if
\* there is one, the masks already stored, and the loading flags, which
\* stay set while detection is still in progress.
InitLayers ==
  /\ FilterIdle /\ RequestIdle /\ SamIdle /\ UploadIdle /\ DiffIdle /\ BlendIdle /\ AlignIdle /\ SessionIdle /\ CompositeIdle
  /\ wheelSam = Null /\ bodySam = Null /\ wheelCut = Null
  /\ wheelLayer = Null /\ paintCut = Null /\ paintLayer = Null
  /\ canvas = Null
  /\ wheelVisible = TRUE /\ paintVisible = TRUE
  /\ \E storedImage \in BOOLEAN, storedWheelMask \in BOOLEAN,
        storedBodyMask \in BOOLEAN, inProgress \in BOOLEAN :
       IF storedImage
         THEN /\ originalImage = StoredImage
              /\ wheelMask = (IF storedWheelMask THEN StoredMask ELSE Null)
              /\ bodyMask = (IF storedBodyMask THEN StoredMask ELSE Null)
              /\ isLoadingWheelMask = (~storedWheelMask /\ inProgress)
              /\ isLoadingBodyMask = (~storedBodyMask /\ inProgress)
         ELSE /\ originalImage = Null
              /\ wheelMask = Null /\ bodyMask = Null
              /\ isLoadingWheelMask = TRUE /\ isLoadingBodyMask = TRUE
  /\ wheelLayers = Null /\ paintLayers = Null
  /\ selectedWheel = null /\ selectedPaint = null
  /\ viewingOriginal = FALSE
  /\ isProcessing = FALSE /\ processingItem = null
  /\ error = null
  /\ fetching = Null /\ timers = {} /\ requests = <<>>

nonLayerVars ==
  <<filterVars, requestVars, samVars, uploadVars, diffVars, blendVars, alignVars, sessionVars, compositeVars, wheelSam,
    bodySam, wheelCut, wheelLayer, paintCut, paintLayer, canvas>>

maskState ==
  <<originalImage, wheelMask, bodyMask, isLoadingWheelMask,
    isLoadingBodyMask>>
wheelSelection == <<selectedWheel, wheelVisible>>
paintSelection == <<selectedPaint, paintVisible>>
layerCache == <<wheelLayers, paintLayers>>
generation == <<isProcessing, processingItem, fetching, timers, requests>>

\* FileUpload onSuccess: the editor had no photograph; it takes the new one
\* with whatever masks are stored and starts from an empty cache.
onSuccess ==
  /\ originalImage = Null
  /\ originalImage' = StoredImage
  /\ wheelLayers' = Null /\ paintLayers' = Null
  /\ viewingOriginal' = FALSE
  /\ selectedWheel' = null /\ selectedPaint' = null
  /\ \E storedWheelMask \in BOOLEAN, storedBodyMask \in BOOLEAN :
       /\ wheelMask' = (IF storedWheelMask THEN StoredMask ELSE wheelMask)
       /\ bodyMask' = (IF storedBodyMask THEN StoredMask ELSE bodyMask)
  /\ isLoadingWheelMask' = FALSE /\ isLoadingBodyMask' = FALSE
  /\ UNCHANGED <<wheelVisible, paintVisible, error, generation, nonLayerVars>>

\* waitForMasks: detection has finished (or a minute has passed); the masks
\* that arrived are taken and both loading flags are cleared.
waitForMasks ==
  /\ originalImage # Null
  /\ isLoadingWheelMask \/ isLoadingBodyMask
  /\ \E newWheelMask \in BOOLEAN, newBodyMask \in BOOLEAN :
       /\ wheelMask' = (IF newWheelMask THEN StoredMask ELSE wheelMask)
       /\ bodyMask' = (IF newBodyMask THEN StoredMask ELSE bodyMask)
  /\ isLoadingWheelMask' = FALSE /\ isLoadingBodyMask' = FALSE
  /\ UNCHANGED <<originalImage, wheelSelection, paintSelection, layerCache,
                 viewingOriginal, error, generation, nonLayerVars>>

\* handleGenerateLayer up to its first await: nothing without a photograph
\* or while processing; otherwise processing starts for the item.
handleGenerateLayer(itemId, layerType) ==
  IF originalImage = Null \/ isProcessing
    THEN UNCHANGED <<isProcessing, processingItem, error, fetching>>
    ELSE /\ isProcessing' = TRUE
         /\ processingItem' = itemId
         /\ error' = null
         /\ fetching' = [pc |-> "blob", itemId |-> itemId,
                         layerType |-> layerType, req |-> 0]

\* handleWheelClick without the look into the cache.
handleWheelClickAlwaysGenerating(id) ==
  /\ ~isProcessing
  /\ IF isLoadingWheelMask
       THEN /\ error' = "Please wait - detecting wheels..."
            /\ UNCHANGED <<wheelSelection, viewingOriginal, isProcessing,
                           processingItem, fetching>>
       ELSE IF selectedWheel = id
         THEN /\ wheelVisible' = ~wheelVisible
              /\ viewingOriginal' = FALSE
              /\ UNCHANGED <<selectedWheel, error, isProcessing,
                             processingItem, fetching>>
         ELSE /\ selectedWheel' = id
              /\ wheelVisible' = TRUE
              /\ viewingOriginal' = FALSE
              /\ Len(requests) < MaxRequests
              /\ handleGenerateLayer(id, "wheel")
  /\ UNCHANGED <<maskState, paintSelection, layerCache, timers, requests,
                 nonLayerVars>>

\* handleWheelClick: ignored while processing; a message while the wheel
\* mask is loading; the selected wheel toggles its visibility; another
\* wheel is selected and, unless its layer is cached, generated.
handleWheelClick(id) ==
  /\ ~isProcessing
  /\ IF isLoadingWheelMask
       THEN /\ error' = "Please wait - detecting wheels..."
            /\ UNCHANGED <<wheelSelection, viewingOriginal, isProcessing,
                           processingItem, fetching>>
       ELSE IF selectedWheel = id
         THEN /\ wheelVisible' = ~wheelVisible
              /\ viewingOriginal' = FALSE
              /\ UNCHANGED <<selectedWheel, error, isProcessing,
                             processingItem, fetching>>
         ELSE /\ selectedWheel' = id
              /\ wheelVisible' = TRUE
              /\ viewingOriginal' = FALSE
              /\ IF id \in DOMAIN wheelLayers
                   THEN UNCHANGED <<error, isProcessing, processingItem,
                                    fetching>>
                   ELSE /\ Len(requests) < MaxRequests
                        /\ handleGenerateLayer(id, "wheel")
  /\ UNCHANGED <<maskState, paintSelection, layerCache, timers, requests,
                 nonLayerVars>>

\* handlePaintClick without the early return while processing.
handlePaintClickWhileProcessing(id) ==
  /\ IF isLoadingBodyMask
       THEN /\ error' = "Please wait - detecting body..."
            /\ UNCHANGED <<paintSelection, viewingOriginal, isProcessing,
                           processingItem, fetching>>
       ELSE IF selectedPaint = id
         THEN /\ paintVisible' = ~paintVisible
              /\ viewingOriginal' = FALSE
              /\ UNCHANGED <<selectedPaint, error, isProcessing,
                             processingItem, fetching>>
         ELSE /\ selectedPaint' = id
              /\ paintVisible' = TRUE
              /\ viewingOriginal' = FALSE
              /\ IF id \in DOMAIN paintLayers
                   THEN UNCHANGED <<error, isProcessing, processingItem,
                                    fetching>>
                   ELSE /\ Len(requests) < MaxRequests
                        /\ handleGenerateLayer(id, "paint")
  /\ UNCHANGED <<maskState, wheelSelection, layerCache, timers, requests,
                 nonLayerVars>>

\* handlePaintClick: the same for a colour and the body mask.
handlePaintClick(id) ==
  /\ ~isProcessing
  /\ IF isLoadingBodyMask
       THEN /\ error' = "Please wait - detecting body..."
            /\ UNCHANGED <<paintSelection, viewingOriginal, isProcessing,
                           processingItem, fetching>>
       ELSE IF selectedPaint = id
         THEN /\ paintVisible' = ~paintVisible
              /\ viewingOriginal' = FALSE
              /\ UNCHANGED <<selectedPaint, error, isProcessing,
                             processingItem, fetching>>
         ELSE /\ selectedPaint' = id
              /\ paintVisible' = TRUE
              /\ viewingOriginal' = FALSE
              /\ IF id \in DOMAIN paintLayers
                   THEN UNCHANGED <<error, isProcessing, processingItem,
                                    fetching>>
                   ELSE /\ Len(requests) < MaxRequests
                        /\ handleGenerateLayer(id, "paint")
  /\ UNCHANGED <<maskState, wheelSelection, layerCache, timers, requests,
                 nonLayerVars>>

\* The catch block that leaves the failed item selected.
catchKeepingSelection(layerType, errorMessage) ==
  /\ error' = errorMessage
  /\ UNCHANGED <<selectedWheel, selectedPaint>>
  /\ isProcessing' = FALSE
  /\ processingItem' = null
  /\ fetching' = Null

\* catch and finally of handleGenerateLayer: the message is shown, the item
\* of the failed type is deselected, processing ends.
catch(layerType, errorMessage) ==
  /\ error' = errorMessage
  /\ IF layerType = "wheel"
       THEN selectedWheel' = null /\ UNCHANGED selectedPaint
       ELSE selectedPaint' = null /\ UNCHANGED selectedWheel
  /\ isProcessing' = FALSE
  /\ processingItem' = null
  /\ fetching' = Null

\* One entry of the request history.
Request(f, status) ==
  [itemId |-> f.itemId, layerType |-> f.layerType,
   endpoint |-> endpointOf(f.layerType), status |-> status]

SetStatus(r, status) ==
  [requests EXCEPT ![r] = [@ EXCEPT !.status = status]]

\* The photograph is read back as a file; if that fails the catch block
\* runs. Otherwise the form is built for the endpoint, the 3-minute timer
\* is armed and the request is sent.
SendRequest ==
  /\ fetching # Null /\ fetching.pc = "blob"
  /\ \/ /\ catch(fetching.layerType, "Failed to fetch")
        /\ UNCHANGED <<timers, requests>>
     \/ /\ requests' = Append(requests, Request(fetching, "pending"))
        /\ timers' = timers \cup {Len(requests) + 1}
        /\ fetching' = [fetching EXCEPT !.pc = "sent",
                                        !.req = Len(requests) + 1]
        /\ UNCHANGED <<error, selectedWheel, selectedPaint, isProcessing,
                       processingItem>>
  /\ UNCHANGED <<maskState, wheelVisible, paintVisible, layerCache,
                 viewingOriginal, nonLayerVars>>

\* The awaited fetch settles before the timer fires: the timer is cleared
\* when a response arrived; a layer is stored under the item's id, anything
\* else is thrown to the catch block.
Respond(outcome) ==
  /\ fetching # Null /\ fetching.pc = "sent"
  /\ fetching.req \in timers
  /\ timers' = IF outcome = "networkError" THEN timers
               ELSE timers \ {fetching.req}
  /\ IF outcome = "layer"
       THEN /\ requests' = SetStatus(fetching.req, "stored")
            /\ IF fetching.layerType = "wheel"
                 THEN /\ wheelLayers' =
                           Put(wheelLayers, fetching.itemId,
                               [itemId |-> fetching.itemId,
                                req |-> fetching.req])
                      /\ UNCHANGED paintLayers
                 ELSE /\ paintLayers' =
                           Put(paintLayers, fetching.itemId,
                               [itemId |-> fetching.itemId,
                                req |-> fetching.req])
                      /\ UNCHANGED wheelLayers
            /\ isProcessing' = FALSE
            /\ processingItem' = null
            /\ fetching' = Null
            /\ UNCHANGED <<error, selectedWheel, selectedPaint>>
       ELSE /\ requests' = SetStatus(fetching.req, "failed")
            /\ catch(fetching.layerType, errorMessageOf(outcome))
            /\ UNCHANGED layerCache
  /\ UNCHANGED <<maskState, wheelVisible, paintVisible, viewingOriginal,
                 nonLayerVars>>

\* A timer fires. If its request is still awaited, controller.abort()
\* rejects the fetch with an AbortError and the catch block shows the
\* timeout message; a timer left armed by a request that already failed
\* aborts nothing.
TimeoutFires ==
  \E t \in timers :
    /\ timers' = timers \ {t}
    /\ IF fetching # Null /\ fetching.pc = "sent" /\ fetching.req = t
         THEN /\ requests' = SetStatus(t, "aborted")
              /\ catch(fetching.layerType, TimedOut)
         ELSE UNCHANGED <<requests, error, selectedWheel, selectedPaint,
                          isProcessing, processingItem, fetching>>
    /\ UNCHANGED <<maskState, wheelVisible, paintVisible, layerCache,
                   viewingOriginal, nonLayerVars>>

\* The server's answer to an aborted request, stored all the same.
LateResponseStored ==
  \E r \in DOMAIN requests :
    /\ requests[r].status = "aborted"
    /\ requests' = SetStatus(r, "late")
    /\ IF requests[r].layerType = "wheel"
         THEN /\ wheelLayers' =
                   Put(wheelLayers, requests[r].itemId,
                       [itemId |-> requests[r].itemId, req |-> r])
              /\ UNCHANGED paintLayers
         ELSE /\ paintLayers' =
                   Put(paintLayers, requests[r].itemId,
                       [itemId |-> requests[r].itemId, req |-> r])
              /\ UNCHANGED wheelLayers
    /\ UNCHANGED <<maskState, wheelSelection, paintSelection,
                   viewingOriginal, error, isProcessing, processingItem,
                   fetching, timers, nonLayerVars>>

\* The server answers a request the editor has aborted: the fetch promise
\* is already rejected, nothing of the editor changes.
LateResponse ==
  \E r \in DOMAIN requests :
    /\ requests[r].status = "aborted"
    /\ requests' = SetStatus(r, "late")
    /\ UNCHANGED <<maskState, wheelSelection, paintSelection, layerCache,
                   viewingOriginal, error, isProcessing, processingItem,
                   fetching, timers, nonLayerVars>>

\* The Original / Tuned switch.
ToggleOriginal ==
  /\ originalImage # Null
  /\ viewingOriginal' = ~viewingOriginal
  /\ UNCHANGED <<maskState, wheelSelection, paintSelection, layerCache,
                 error, generation, nonLayerVars>>

NextLayers ==
  \/ onSuccess
  \/ waitForMasks
  \/ \E id \in WheelIds : handleWheelClick(id)
  \/ \E id \in PaintIds : handlePaintClick(id)
  \/ SendRequest
  \/ \E outcome \in Outcomes : Respond(outcome)
  \/ TimeoutFires
  \/ LateResponse
  \/ ToggleOriginal

SpecLayers == InitLayers /\ [][NextLayers]_vars

\* --------------------------------------------- what the layer cache owes

\* The layer cached for an item of a layer type, Null when there is none.
Cached(layers, id) == IF id \in DOMAIN layers THEN layers[id] ELSE Null

\* Two requests of the history ask for the same item.
SameItem(r1, r2) ==
  /\ r1.layerType = r2.layerType
  /\ r1.itemId = r2.itemId

\* C17: once a layer is cached for a wheel or paint id of the photograph,
\* selecting that id again shows the cached layer and starts no generation,
\* and no request for an id follows the request that generated its layer:
\* each id is generated successfully at most once.
C17_CachedLayerNotRegenerated ==
  [][ /\ \A id \in WheelIds :
           (id \in DOMAIN wheelLayers /\ selectedWheel # id
              /\ selectedWheel' = id) =>
             /\ ~isProcessing' /\ fetching' = Null
             /\ requests' = requests
             /\ currentWheelLayer' = wheelLayers[id]
      /\ \A id \in PaintIds :
           (id \in DOMAIN paintLayers /\ selectedPaint # id
              /\ selectedPaint' = id) =>
             /\ ~isProcessing' /\ fetching' = Null
             /\ requests' = requests
             /\ currentPaintLayer' = paintLayers[id]
      /\ (fetching' # Null /\ fetching'.layerType = "wheel") =>
           fetching'.itemId \notin DOMAIN wheelLayers'
      /\ (fetching' # Null /\ fetching'.layerType = "paint") =>
           fetching'.itemId \notin DOMAIN paintLayers'
      /\ \A r1, r2 \in DOMAIN requests' :
           (r1 < r2 /\ requests'[r1].status = "stored") =>
             ~SameItem(requests'[r1], requests'[r2]) ]_vars

\* A wheel was generated, then another one, and the first is selected
\* again: it is shown from the cache.
C17_Witness ==
  \E id \in WheelIds :
    /\ selectedWheel = id
    /\ currentWheelLayer # Null
    /\ currentWheelLayer.req = 1
    /\ Len(requests) = 2
    /\ requests[2].layerType = "wheel"
    /\ requests[2].itemId # id
    /\ requests[2].status = "stored"
    /\ ~isProcessing

\* C21: for the photograph being edited, a layer cached for an id keeps its
\* value and stays cached through every click, visibility toggle,
\* original / tuned switch and other generation; only a new upload (the
\* photograph changes) empties the caches.
C21_CachedLayerImmutable ==
  [][ originalImage' = originalImage =>
        /\ \A id \in DOMAIN wheelLayers :
             /\ id \in DOMAIN wheelLayers'
             /\ wheelLayers'[id] = wheelLayers[id]
        /\ \A id \in DOMAIN paintLayers :
             /\ id \in DOMAIN paintLayers'
             /\ paintLayers'[id] = paintLayers[id] ]_vars

\* Two wheels and a colour have been generated one after the other and all
\* three layers are cached, the first one hidden behind the original view.
C21_Witness ==
  /\ DOMAIN wheelLayers = WheelIds
  /\ DOMAIN paintLayers = PaintIds
  /\ \E id \in WheelIds : wheelLayers[id].req = 1
  /\ viewingOriginal
  /\ ~isProcessing

\* The generation in flight ends in the catch block in this step.
GenerationFails ==
  /\ fetching # Null
  /\ fetching' = Null
  /\ \/ fetching.req = 0
     \/ requests'[fetching.req].status \in {"failed", "aborted"}

\* C18: when the generation for item X fails (an error response, a
\* response without a layer, a network error or the timeout), X is no
\* longer selected, no layer is cached for X, an error message is set,
\* processing is cleared and the canvas gets no layer of X's type.
C18_FailureRevertsSelection ==
  [][ GenerationFails =>
        /\ error' # null
        /\ ~isProcessing'
        /\ processingItem' = null
        /\ IF fetching.layerType = "wheel"
             THEN /\ selectedWheel' # fetching.itemId
                  /\ Cached(wheelLayers', fetching.itemId) = Null
                  /\ currentWheelLayer' = Null
             ELSE /\ selectedPaint' # fetching.itemId
                  /\ Cached(paintLayers', fetching.itemId) = Null
                  /\ currentPaintLayer' = Null ]_vars

\* A generation has just failed on a response without a layer.
C18_Witness ==
  /\ Len(requests) > 0
  /\ requests[Len(requests)].status = "failed"
  /\ error = errorMessageOf("noLayer")
  /\ fetching = Null
  /\ ~isProcessing

\* The timer of the request in flight fires in this step.
TimesOut ==
  /\ fetching # Null
  /\ fetching.pc = "sent"
  /\ requests[fetching.req].status = "pending"
  /\ requests'[fetching.req].status = "aborted"

\* C19: when the timer fires before the request has completed, the request
\* is aborted and the generation ends in failure: the timeout message is
\* shown, no layer is stored, the item is deselected, processing ends and
\* no request is issued in its place; the answer to an aborted request
\* never reaches the layer cache.
C19_TimeoutIsTerminal ==
  [][ /\ TimesOut =>
           /\ error' = TimedOut
           /\ UNCHANGED layerCache
           /\ IF fetching.layerType = "wheel"
                THEN selectedWheel' = null
                ELSE selectedPaint' = null
           /\ ~isProcessing' /\ processingItem' = null
           /\ fetching' = Null
           /\ Len(requests') = Len(requests)
      /\ \A r \in DOMAIN requests :
           (requests[r].status = "aborted"
              /\ requests'[r].status # "aborted") =>
             /\ UNCHANGED layerCache
             /\ Len(requests') = Len(requests)
      /\ \A id \in DOMAIN wheelLayers' :
           requests'[wheelLayers'[id].req].status = "stored"
      /\ \A id \in DOMAIN paintLayers' :
           requests'[paintLayers'[id].req].status = "stored" ]_vars

\* A request timed out, its answer arrived afterwards, and the editor still
\* shows the timeout with nothing selected or cached.
C19_Witness ==
  /\ \E r \in DOMAIN requests : requests[r].status = "late"
  /\ error = TimedOut
  /\ selectedWheel = null /\ selectedPaint = null
  /\ wheelLayers = Null /\ paintLayers = Null

\* ---------------------------------------------- extractDifferenceLayer

\* threshold = 25 as both callers pass it.
DiffThreshold == 25

\* An input sharp cannot decode (or loadImage cannot fetch).
Undecodable == Raster(0, 0, <<>>)

decodes(input) == input.width > 0 /\ input.height > 0

\* The region masks a caller may pass: none, a mask, or one that does not
\* decode.
RegionMasks == {Null} \cup MaskInputs \cup {Undecodable}

Abs(x) == IF x < 0 THEN -x ELSE x

\* Math.abs(r1 - r2) + Math.abs(g1 - g2) + Math.abs(b1 - b2)
diff(p1, p2) == Abs(p1[1] - p2[1]) + Abs(p1[2] - p2[2]) + Abs(p1[3] - p2[3])

\* The mask .resize(width, height, { fit: "fill" }): unchanged at the
\* photograph's size, otherwise resampled by the default kernel: a uniform
\* mask stays uniform, any other becomes some grey raster of that size.
resizeDefault(m) ==
  IF m.width = W /\ m.height = H
    THEN {m.data}
    ELSE IF \A i \in DOMAIN m.data : m.data[i] = m.data[0]
      THEN {[i \in Pixels |-> m.data[0]]}
      ELSE { x.data : x \in { y \in MaskInputs : y.width = W /\ y.height = H } }

\* passesFilter of the pixel loop.
passesFilter(mask, maskMode, i) ==
  IF mask = Null THEN TRUE
  ELSE IF maskMode = "include" THEN mask[i] > 128
  ELSE ~(mask[i] > 128)

\* The pixel loop: a changed pixel that passes the filter is copied from
\* the generated frame with full opacity, every other pixel is transparent.
layerData(originalRaw, generatedRaw, mask, maskMode) ==
  [i \in Pixels |->
     IF diff(originalRaw[i], generatedRaw[i]) > DiffThreshold * 3
          /\ passesFilter(mask, maskMode, i)
       THEN <<generatedRaw[i][1], generatedRaw[i][2], generatedRaw[i][3], 255>>
       ELSE <<0, 0, 0, 0>>]

InitDiff ==
  /\ FilterIdle /\ EditorIdle /\ RequestIdle /\ SamIdle /\ UploadIdle
  /\ LayersIdle /\ BlendIdle /\ AlignIdle /\ SessionIdle /\ CompositeIdle
  /\ diffArgs \in [originalImage : Originals,
                   generatedImage : CandidateInputs \cup {Undecodable},
                   regionMask : RegionMasks,
                   maskMode : {"include", "exclude"}]
  /\ diffPc = "loadImages"
  /\ regionRaw = Null
  /\ diffResult = Null

nonDiffVars ==
  <<filterVars, editorVars, requestVars, samVars, uploadVars, layerVars,
    blendVars, alignVars, sessionVars, compositeVars>>

\* Both frames are loaded and the photograph's metadata read; a frame that
\* does not decode rejects the call.
LoadImages ==
  /\ diffPc = "loadImages"
  /\ IF decodes(diffArgs.generatedImage)
       THEN /\ diffPc' = "loadMask"
            /\ UNCHANGED diffResult
       ELSE /\ diffPc' = "done"
            /\ diffResult' = [ok |-> FALSE, layer |-> Null]
  /\ UNCHANGED <<diffArgs, regionRaw, nonDiffVars>>

\* "Load and process region mask if provided": the mask is resized to the
\* photograph; when loading it throws, the error is logged and the call
\* continues without a mask.
LoadRegionMask ==
  /\ diffPc = "loadMask"
  /\ diffPc' = "extract"
  /\ IF diffArgs.regionMask # Null /\ decodes(diffArgs.regionMask)
       THEN regionRaw' \in resizeDefault(diffArgs.regionMask)
       ELSE regionRaw' = Null
  /\ UNCHANGED <<diffArgs, diffResult, nonDiffVars>>

\* The generated frame is resized to the photograph and the layer is built
\* and returned as a PNG.
ExtractLayer ==
  /\ diffPc = "extract"
  /\ diffPc' = "done"
  /\ \E generatedRaw \in alignCandidate(diffArgs.generatedImage) :
       diffResult' =
         [ok |-> TRUE,
          layer |-> layerData(diffArgs.originalImage, generatedRaw, regionRaw,
                              diffArgs.maskMode)]
  /\ UNCHANGED <<diffArgs, regionRaw, nonDiffVars>>

NextDiff == LoadImages \/ LoadRegionMask \/ ExtractLayer

SpecDiff == InitDiff /\ [][NextDiff]_vars

\* C20: no compositing operation swallows an error: when a supplied mask
\* or frame fails to load, extractDifferenceLayer ends with an error, so
\* that the layer it returns never ignores a region mask its caller passed.
C20_NoErrorSwallowed ==
  diffPc = "done" =>
    /\ (~decodes(diffArgs.generatedImage) => ~diffResult.ok)
    /\ (diffArgs.regionMask # Null /\ ~decodes(diffArgs.regionMask)) =>
         ~diffResult.ok
    /\ (diffArgs.regionMask # Null /\ diffResult.ok) => regionRaw # Null

\* ------------------------------------------------- compositeWithMask

\* The masks handed to compositeWithMask: the segmentation masks and two
\* uniform low-resolution ones.
BlendMasks ==
  MaskInputs
    \cup { MaskOn(LowW, LowH, {}, <<255, 0>>),
           MaskOn(LowW, LowH, 0 .. (LowW * LowH - 1), <<255, 0>>) }

\* The blend of one channel, truncated instead of rounded.
blendTruncated(o, md, maskValue) ==
  (o * (255 - maskValue) + md * maskValue) \div 255

\* Math.round(original * (1 - alpha) + modified * alpha) with
\* alpha = maskValue / 255. The exact value is a multiple of 1/255 and
\* 255 is odd, so it is never half-way between two integers.
blend(o, md, maskValue) ==
  (2 * (o * (255 - maskValue) + md * maskValue) + 255) \div 510

\* The pixel loop of compositeWithMask.
outputDataOf(originalRaw, modifiedRaw, mask) ==
  [i \in Pixels |->
     << blend(originalRaw[i][1], modifiedRaw[i][1], mask[i]),
        blend(originalRaw[i][2], modifiedRaw[i][2], mask[i]),
        blend(originalRaw[i][3], modifiedRaw[i][3], mask[i]),
        255 >>]

Clamp(x) == IF x < 0 THEN 0 ELSE IF x > 255 THEN 255 ELSE x

\* .jpeg({ quality: 95 }): the alpha channel is dropped and the colours are
\* quantised; the decoded picture is the raster itself or lies a step away
\* from it.
jpeg(data) ==
  { [i \in Pixels |-> << Clamp(data[i][1] + d), Clamp(data[i][2] + d),
                         Clamp(data[i][3] + d) >>] : d \in {-1, 0, 1} }

InitBlend ==
  /\ FilterIdle /\ EditorIdle /\ RequestIdle /\ SamIdle /\ UploadIdle
  /\ LayersIdle /\ DiffIdle /\ AlignIdle /\ SessionIdle /\ CompositeIdle
  /\ blendArgs \in [originalImage : Originals,
                    modifiedImage : CandidateInputs,
                    mask : BlendMasks]
  /\ blendPc = "load"
  /\ blendRaw = Null
  /\ outputData = Null
  /\ blendResult = Null

nonBlendVars ==
  <<filterVars, editorVars, requestVars, samVars, uploadVars, layerVars,
    diffVars, alignVars, sessionVars, compositeVars>>

\* The three images are loaded; the modified frame and the mask are resized
\* to the photograph and read as raw pixels.
LoadAndResize ==
  /\ blendPc = "load"
  /\ blendPc' = "loop"
  /\ \E modifiedRaw \in alignCandidate(blendArgs.modifiedImage),
        mask \in resizeDefault(blendArgs.mask) :
       blendRaw' = [modifiedRaw |-> modifiedRaw, maskRaw |-> mask]
  /\ UNCHANGED <<blendArgs, outputData, blendResult, nonBlendVars>>

\* "Composite pixel by pixel".
CompositeLoop ==
  /\ blendPc = "loop"
  /\ blendPc' = "encode"
  /\ outputData' = outputDataOf(blendArgs.originalImage, blendRaw.modifiedRaw,
                                blendRaw.maskRaw)
  /\ UNCHANGED <<blendArgs, blendRaw, blendResult, nonBlendVars>>

\* "Convert to JPEG" and return the data URL.
EncodeJpeg ==
  /\ blendPc = "encode"
  /\ blendPc' = "done"
  /\ blendResult' \in jpeg(outputData)
  /\ UNCHANGED <<blendArgs, blendRaw, outputData, nonBlendVars>>

NextBlend == LoadAndResize \/ CompositeLoop \/ EncodeJpeg

SpecBlend == InitBlend /\ [][NextBlend]_vars

\* ------------------------------------------ what the region filter owes

\* A pixel is "in region" iff its intensity exceeds 128 of 255.
InRegion(v) == v > 128

Foreground(mask) == { p \in Pixels : InRegion(mask[p]) }

\* Horizontal and vertical neighbours inside the grid; the end of a row is
\* not adjacent to the start of the next.
Neighbours(p) ==
  { q \in Pixels :
      \/ (q = p - 1 /\ p % W # 0)
      \/ (q = p + 1 /\ q % W # 0)
      \/ q = p - W
      \/ q = p + W }

\* The pixels of F joined to S by paths of adjacent pixels of F.
RECURSIVE Grow(_, _)
Grow(S, F) ==
  LET T == S \cup { q \in F : \E p \in S : q \in Neighbours(p) }
  IN IF T = S THEN S ELSE Grow(T, F)

\* The connected components of a set of pixels (maximal, 4-adjacency).
ComponentsOf(F) == { Grow({p}, F) : p \in F }

MinOf(S) == CHOOSE m \in S : \A n \in S : m <= n

\* The n largest components; of two equal-sized components the one a
\* row-major scan discovers first (the one holding the smaller index).
LargestComponents(F, n) ==
  LET C == ComponentsOf(F)
  IN { c \in C :
         Cardinality({ d \in C :
             \/ Cardinality(d) > Cardinality(c)
             \/ (Cardinality(d) = Cardinality(c) /\ MinOf(d) < MinOf(c)) }) < n }

DistinctSizes(C) ==
  \A c, d \in C : c # d => Cardinality(c) # Cardinality(d)

\* C4: for every mask and keep >= 1, keepLargestComponents and
\* filterMaskToLargestRegions output 255 exactly on the pixels of the keep
\* largest foreground components (ties by discovery order) and 0 on every
\* other pixel; with more than keep components of distinct sizes, exactly
\* keep components remain.
C4_FilterKeepsLargest ==
  filterFn \in {"keepLargestComponents", "filterMaskToLargestRegions"} =>
    LET C    == ComponentsOf(Foreground(inMask))
        kept == UNION LargestComponents(Foreground(inMask), keep)
    IN /\ \A p \in Pixels : outMask[p] = (IF p \in kept THEN 255 ELSE 0)
       /\ (Cardinality(C) > keep /\ DistinctSizes(C)) =>
            Cardinality(ComponentsOf(Foreground(outMask))) = keep

\* C5: at every region-filter call site (the wheel filter with keep = 4,
\* the body filter of detect-body and of paint-body, and
\* filterMaskToLargestRegions) a mask with zero foreground pixels gives an
\* all-zero output. The mask here has no pixel at or above 128 either, so
\* it has no foreground under any reading of the threshold.
C5_EmptyMaskStaysEmpty ==
  ( /\ filterFn # "none"
    /\ (filterFn = "keepLargestComponents" => keep = WheelKeep)
    /\ \A p \in Pixels : inMask[p] < 128 ) =>
    \A p \in Pixels : outMask[p] = 0

\* C6: for every mask with k foreground components and every keep >= k the
\* filter's output has exactly the foreground pixel set of its input, a
\* pixel being foreground iff its intensity exceeds 128.
C6_FilterNoOpWhenFewComponents ==
  ( /\ filterFn # "none"
    /\ keep >= Cardinality(ComponentsOf(Foreground(inMask))) ) =>
    Foreground(outMask) = Foreground(inMask)

\* C7: for all masks and keep >= 1, the output has no more foreground
\* pixels (intensity above 128) than the input, and every output
\* foreground pixel was foreground in the input.
C7_FilterNeverGrows ==
  filterFn # "none" =>
    /\ Cardinality(Foreground(outMask)) <= Cardinality(Foreground(inMask))
    /\ Foreground(outMask) \subseteq Foreground(inMask)

\* ----------------------------------------- what the labelling owes

\* The labels and pixel counts the filter that ran has computed.
labelling ==
  IF filterFn = "filterMaskToLargestRegions"
    THEN LET c == utilFindRegions(binaryMaskOf(inMask), 0, NoLabels, <<>>)
         IN [labels |-> c.labels, counts |-> c.regions]
    ELSE LET c == routeFindComponents(inMask, 0, NoLabels, <<>>)
         IN [labels |-> c.labels, counts |-> c.componentSizes]

\* C25: on every mask the flood fill terminates and gives every foreground
\* pixel exactly one label; two foreground pixels share a label iff a path
\* of horizontally or vertically adjacent foreground pixels joins them
\* (diagonal contact does not merge, a row's end is not adjacent to the
\* next row's start); each component's recorded pixel count is the number
\* of pixels carrying its label.
C25_LabelsAreFourConnectedComponents ==
  filterFn # "none" =>
    LET F == Foreground(inMask)
        c == labelling
    IN /\ \A p \in F : c.labels[p] \in 1 .. Len(c.counts)
       /\ \A p, q \in F :
            (c.labels[p] = c.labels[q]) <=> (q \in Grow({p}, F))
       /\ \A l \in 1 .. Len(c.counts) :
            c.counts[l] = Cardinality({ p \in Pixels : c.labels[p] = l })

\* C26: the body filter is the general region filter at keep = 1: for every
\* mask, keepLargestComponent (detect-body, paint-body) returns the output
\* of keepLargestComponents called with maxComponents = 1.
C26_BodyFilterIsKeepOne ==
  filterFn \in {"keepLargestComponent", "paintKeepLargestComponent"} =>
    outMask = keepLargestComponents(inMask, 1)

\* -------------------------------------------- what the pipelines owe

Alpha(layer, p) == layer[p][4]

Rgb(px) == <<px[1], px[2], px[3]>>

\* The pixels at which a layer is not fully transparent.
Opaque(layer) == { p \in Pixels : Alpha(layer, p) # 0 }

\* C1: in the replace-wheels and paint-body cutouts, every pixel of the
\* layer has the aligned candidate's RGB and the mask's intensity as alpha
\* (so alpha 0 where the mask is 0 and 255 where it is 255).
C1_CutoutCopiesRgbAndMask ==
  /\ wheelLayer # Null =>
       \A p \in Pixels :
         /\ Rgb(wheelLayer[p]) = wheelCut.generatedRaw[p]
         /\ Alpha(wheelLayer, p) = wheelCut.maskRaw[p]
  /\ paintLayer # Null =>
       \A p \in Pixels :
         /\ Rgb(paintLayer[p]) = paintCut.generatedRaw[p]
         /\ Alpha(paintLayer, p) = paintCut.maskRaw[p]

\* Both layers exist, cut with masks that hold black, white and (the wheel
\* mask) an intermediate intensity.
C1_Witness ==
  /\ wheelLayer # Null /\ paintLayer # Null
  /\ \E p, q, r \in Pixels :
       /\ wheelCut.maskRaw[p] = 100 /\ Alpha(wheelLayer, p) = 100
       /\ wheelCut.maskRaw[q] = 200
       /\ paintCut.maskRaw[r] = 255
  /\ \E p \in Pixels : paintCut.maskRaw[p] = 0

\* C2 as claimed: every layer the wheel or paint pipeline returns has alpha
\* 0 at every pixel its governing mask (the mask the cutout used) classifies
\* as not in region (intensity not above 128) and non-zero alpha at every
\* pixel it classifies as in region.
C2_AlphaFollowsRegion ==
  /\ wheelLayer # Null =>
       \A p \in Pixels :
         IF InRegion(wheelCut.maskRaw[p]) THEN Alpha(wheelLayer, p) # 0
                                          ELSE Alpha(wheelLayer, p) = 0
  /\ paintLayer # Null =>
       \A p \in Pixels :
         IF InRegion(paintCut.maskRaw[p]) THEN Alpha(paintLayer, p) # 0
                                          ELSE Alpha(paintLayer, p) = 0

\* C2 as amended: every returned layer has alpha 0 exactly at the pixels
\* where its governing mask's intensity is 0; so alpha is non-zero at every
\* in-region pixel, and it is 0 at a not-in-region pixel iff the mask is 0
\* there (always, when the mask holds only 0 and 255).
C2_AlphaZeroIffMaskZero ==
  /\ wheelLayer # Null =>
       \A p \in Pixels :
         /\ (Alpha(wheelLayer, p) = 0) <=> (wheelCut.maskRaw[p] = 0)
         /\ InRegion(wheelCut.maskRaw[p]) => Alpha(wheelLayer, p) # 0
  /\ paintLayer # Null =>
       \A p \in Pixels :
         /\ (Alpha(paintLayer, p) = 0) <=> (paintCut.maskRaw[p] = 0)
         /\ InRegion(paintCut.maskRaw[p]) => Alpha(paintLayer, p) # 0

\* A wheel layer from a caller-supplied mask with a not-in-region pixel of
\* non-zero intensity, next to a paint layer from a freshly detected body
\* mask that has pixels in and out of the region.
C2_Witness ==
  /\ wheelLayer # Null /\ wheelSam = Null
  /\ \E p \in Pixels :
       /\ wheelCut.maskRaw[p] # 0 /\ ~InRegion(wheelCut.maskRaw[p])
       /\ Alpha(wheelLayer, p) # 0
  /\ paintLayer # Null /\ paintCut.sam # Null
  /\ \E p, q \in Pixels :
       /\ InRegion(paintCut.maskRaw[p]) /\ Alpha(paintLayer, p) # 0
       /\ paintCut.maskRaw[q] = 0 /\ Alpha(paintLayer, q) = 0

\* A layer the canvas draws: present and visible.
Drawn(layer, visible) == layer # Null /\ visible

\* C3: on the canvas (photograph, then the visible wheel layer, then the
\* visible paint layer, each drawn over what is below), every pixel at
\* which all visible layers have alpha 0 equals the photograph's pixel,
\* whatever the candidates hold there.
C3_OutsideRegionIsOriginal ==
  \A p \in Pixels :
    ( /\ Drawn(wheelLayer, wheelVisible) => Alpha(wheelLayer, p) = 0
      /\ Drawn(paintLayer, paintVisible) => Alpha(paintLayer, p) = 0 )
    => canvas[p] = originalImage[p]

\* Both layers are drawn; at one pixel both are transparent although both
\* candidates differ from the photograph there, at another the canvas shows
\* a changed pixel.
C3_Witness ==
  /\ Drawn(wheelLayer, wheelVisible) /\ Drawn(paintLayer, paintVisible)
  /\ \E p, q \in Pixels :
       /\ Alpha(wheelLayer, p) = 0 /\ Alpha(paintLayer, p) = 0
       /\ Rgb(wheelLayer[p]) # originalImage[p]
       /\ Rgb(paintLayer[p]) # originalImage[p]
       /\ canvas[p] = originalImage[p]
       /\ canvas[q] # originalImage[q]

\* C8: in the paint pipeline no pixel is in region in both the wheel mask
\* and the final paint mask the cutout uses, so the paint layer has alpha 0
\* on every wheel pixel.
C8_PaintExcludesWheels ==
  (paintLayer # Null /\ paintCut.wheelRaw # Null) =>
    \A p \in Pixels :
      /\ ~(InRegion(paintCut.wheelRaw[p]) /\ InRegion(paintCut.maskRaw[p]))
      /\ InRegion(paintCut.wheelRaw[p]) => Alpha(paintLayer, p) = 0

\* A paint layer whose body mask overlaps the wheel mask at one pixel and
\* reaches beyond it at another.
C8_Witness ==
  /\ paintLayer # Null /\ paintCut.wheelRaw # Null
  /\ \E p, q \in Pixels :
       /\ InRegion(paintCut.bodyRaw[p]) /\ InRegion(paintCut.wheelRaw[p])
       /\ Alpha(paintLayer, p) = 0
       /\ InRegion(paintCut.bodyRaw[q]) /\ ~InRegion(paintCut.wheelRaw[q])
       /\ Alpha(paintLayer, q) = 255

\* C9: when every body-foreground pixel is wheel-foreground, the paint
\* layer has alpha 0 at every pixel.
C9_CoveredBodyIsTransparent ==
  ( /\ paintLayer # Null /\ paintCut.wheelRaw # Null
    /\ \A p \in Pixels :
         InRegion(paintCut.bodyRaw[p]) => InRegion(paintCut.wheelRaw[p]) )
  => \A p \in Pixels : Alpha(paintLayer, p) = 0

\* A non-empty body mask inside the wheel mask, and a fully transparent
\* paint layer.
C9_Witness ==
  /\ paintLayer # Null /\ paintCut.wheelRaw # Null
  /\ \E p \in Pixels : InRegion(paintCut.bodyRaw[p])
  /\ \A p \in Pixels :
       InRegion(paintCut.bodyRaw[p]) => InRegion(paintCut.wheelRaw[p])
  /\ \A p \in Pixels : Alpha(paintLayer, p) = 0

SamForeground(sam) == { p \in Pixels : alignMask(sam)[p] >= RouteThreshold }

Uniform(m, v) == \A i \in DOMAIN m.data : m.data[i] = v

\* x is the integer nearest to num / 255.
Nearest(x, num) == Abs(510 * x - 2 * num) < 255

\* The buffer is the blend of the photograph and the resized modified frame
\* under the resized mask, opaque everywhere, with the boundary cases of a
\* uniform mask.
IsBlend(buffer) ==
  /\ \A i \in Pixels :
       /\ \A c \in 1 .. 3 :
            Nearest(buffer[i][c],
                    blendArgs.originalImage[i][c]
                        * (255 - blendRaw.maskRaw[i])
                      + blendRaw.modifiedRaw[i][c] * blendRaw.maskRaw[i])
  /\ Uniform(blendArgs.mask, 0) =>
       \A i \in Pixels : Rgb(buffer[i]) = blendArgs.originalImage[i]
  /\ Uniform(blendArgs.mask, 255) =>
       \A i \in Pixels : Rgb(buffer[i]) = blendRaw.modifiedRaw[i]

\* C22 as stated, of what compositeWithMask returns: per pixel each colour
\* channel of the output is round(original*(1-m/255) + modified*(m/255))
\* with alpha 255; with an all-zero mask the output equals the photograph,
\* with an all-255 mask the modified frame.
C22_ReturnedImageIsBlend ==
  blendPc = "done" =>
    /\ IsBlend(blendResult)
    /\ \A i \in Pixels : Len(blendResult[i]) = 4 /\ blendResult[i][4] = 255

\* C22, amended: the buffer the pixel loop fills (outputData, which is then
\* encoded as a JPEG) holds per pixel round(original*(1-m/255) +
\* modified*(m/255)) in each colour channel and alpha 255; with an all-zero
\* mask its colours equal the photograph's, with an all-255 mask the
\* modified frame's.
C22_BufferIsBlend ==
  outputData # Null =>
    /\ IsBlend(outputData)
    /\ \A i \in Pixels : outputData[i][4] = 255

\* A soft mask has been blended: some pixel is neither the photograph's
\* nor the modified frame's.
C22_Witness ==
  /\ blendPc = "done"
  /\ \E i \in Pixels :
       /\ blendRaw.maskRaw[i] \notin {0, 255}
       /\ Rgb(outputData[i]) # blendArgs.originalImage[i]
       /\ Rgb(outputData[i]) # blendRaw.modifiedRaw[i]

\* ------------------------------------------------- the alignment sites

\* Every place that brings a mask or a generated frame to the photograph's
\* size: what it aligns, the kernel it names, and whether it first compares
\* the sizes.
Site(name, kind, kernel, conditional) ==
  [name |-> name, kind |-> kind, kernel |-> kernel,
   conditional |-> conditional]

AlignSites ==
  { Site("detect-wheels", "mask", "nearest", TRUE),
    Site("detect-body", "mask", "nearest", TRUE),
    Site("replace-wheels mask", "mask", "nearest", TRUE),
    Site("replace-wheels candidate", "candidate", "lanczos3", TRUE),
    Site("paint-body body mask", "mask", "nearest", TRUE),
    Site("paint-body wheel mask", "mask", "nearest", TRUE),
    Site("paint-body candidate", "candidate", "lanczos3", TRUE),
    Site("extractDifferenceLayer mask", "mask", "default", FALSE),
    Site("extractDifferenceLayer generated", "candidate", "default", FALSE),
    Site("compositeWithMask mask", "mask", "default", FALSE),
    Site("compositeWithMask modified", "candidate", "default", FALSE) }

\* An alignment that binarises the mask on the way.
alignedRethresholded(site, r) ==
  IF site.kind = "mask"
    THEN { [i \in Pixels |-> IF x[i] >= 128 THEN 255 ELSE 0] :
             x \in (IF site.kernel = "nearest" THEN {alignMask(r)}
                    ELSE resizeDefault(r)) }
    ELSE alignCandidate(r)

\* The rasters a site can produce from its input.
aligned(site, r) ==
  IF site.kind = "mask"
    THEN IF site.kernel = "nearest" THEN {alignMask(r)}
         ELSE resizeDefault(r)
    ELSE alignCandidate(r)

InitAlign ==
  /\ FilterIdle /\ EditorIdle /\ RequestIdle /\ SamIdle /\ UploadIdle
  /\ LayersIdle /\ DiffIdle /\ BlendIdle /\ SessionIdle /\ CompositeIdle
  /\ alignSite \in AlignSites
  /\ alignInput \in (IF alignSite.kind = "mask" THEN BlendMasks
                     ELSE CandidateInputs)
  /\ alignPc = "metadata"
  /\ alignOutput = Null

nonAlignVars ==
  <<filterVars, editorVars, requestVars, samVars, uploadVars, layerVars,
    diffVars, blendVars, sessionVars, compositeVars>>

\* The photograph's and the input's dimensions are read.
ReadMetadata ==
  /\ alignPc = "metadata"
  /\ alignPc' = "resize"
  /\ UNCHANGED <<alignSite, alignInput, alignOutput, nonAlignVars>>

\* The site's resize.
Resize ==
  /\ alignPc = "resize"
  /\ alignPc' = "done"
  /\ alignOutput' \in aligned(alignSite, alignInput)
  /\ UNCHANGED <<alignSite, alignInput, nonAlignVars>>

NextAlign == ReadMetadata \/ Resize

SpecAlign == InitAlign /\ [][NextAlign]_vars

\* ----------------------------------------------- what alignment owes

C24_MaskResizeIsNearest ==
  (alignPc = "done" /\ alignSite.kind = "mask") =>
    \A i \in Pixels :
      \E j \in DOMAIN alignInput.data : alignOutput[i] = alignInput.data[j]

\* The requests the editor is still awaiting.
InFlight == {r \in DOMAIN requests : requests[r].status = "pending"}

\* While a generation goes on, the only things that move are its own
\* request and the Original / Tuned switch.
GenerationUndisturbed ==
  (isProcessing /\ isProcessing') =>
    /\ UNCHANGED <<wheelSelection, paintSelection, layerCache>>
    /\ fetching'.itemId = fetching.itemId
    /\ fetching'.layerType = fetching.layerType
    /\ processingItem' = processingItem
    /\ Len(requests') > Len(requests) =>
         /\ fetching.pc = "blob"
         /\ fetching'.req = Len(requests')
         /\ Len(requests') = Len(requests) + 1

\* A generation that ends, however it ends, ends processing.
ExitClearsProcessing ==
  (fetching # Null /\ fetching' = Null) =>
    (~isProcessing' /\ processingItem' = null)

\* C29: at most one layer-generation request is awaited at any time, and
\* processing is on exactly while a generation is under way; while it is,
\* no click changes the wheel or paint selection or the layer caches or
\* starts another request; and every exit of a generation (layer stored,
\* failure, timeout) clears processing.
C29_OneGenerationAtATime ==
  /\ [](/\ Cardinality(InFlight) <= 1
        /\ isProcessing <=> fetching # Null
        /\ InFlight # {} =>
             (isProcessing /\ fetching.pc = "sent"
                /\ InFlight = {fetching.req}))
  /\ [][GenerationUndisturbed /\ ExitClearsProcessing]_vars

\* A second generation is awaiting its answer after the first one ended,
\* with a wheel selected and a layer in the cache.
C29_Witness ==
  /\ isProcessing
  /\ fetching # Null /\ fetching.pc = "sent" /\ fetching.req = 2
  /\ requests[1].status = "stored"
  /\ InFlight = {2}


\* ------------------------------------------------- the canvas composite

\* The number of composite() calls followed.
MaxComposites == 3

\* The layer URL a generation stores for an item.
LayerUrlOf(itemId) == [itemId |-> itemId, req |-> 1]

\* The props the editor page renders EditorCanvas with.
canvasProps ==
  [originalImage |-> originalImage,
   wheelLayer |-> currentWheelLayer,
   paintLayer |-> currentPaintLayer,
   wheelVisible |-> (wheelVisible /\ ~viewingOriginal),
   paintVisible |-> (paintVisible /\ ~viewingOriginal)]

\* canvas.width x canvas.height once it matches the photograph.
NaturalSize == W * H

\* What a composite draws after clearing: the photograph, then the wheel
\* layer, then the paint layer, each layer if it is there and visible.
Drawing(p) ==
  <<p.originalImage>>
    \o (IF p.wheelLayer # Null /\ p.wheelVisible
          THEN <<p.wheelLayer>> ELSE <<>>)
    \o (IF p.paintLayer # Null /\ p.paintVisible
          THEN <<p.paintLayer>> ELSE <<>>)

\* The canvas is mounted once the editor has its photograph; the effect has
\* not run yet.
InitCanvas ==
  /\ FilterIdle /\ RequestIdle /\ SamIdle /\ UploadIdle /\ DiffIdle
  /\ BlendIdle /\ AlignIdle /\ SessionIdle
  /\ wheelSam = Null /\ bodySam = Null /\ wheelCut = Null
  /\ wheelLayer = Null /\ paintCut = Null /\ paintLayer = Null
  /\ canvas = Null
  /\ originalImage = StoredImage
  /\ wheelMask = StoredMask /\ bodyMask = StoredMask
  /\ isLoadingWheelMask = FALSE /\ isLoadingBodyMask = FALSE
  /\ wheelVisible = TRUE /\ paintVisible = TRUE
  /\ wheelLayers = Null /\ paintLayers = Null
  /\ selectedWheel = null /\ selectedPaint = null
  /\ viewingOriginal = FALSE
  /\ isProcessing = FALSE /\ processingItem = null
  /\ error = null
  /\ fetching = Null /\ timers = {} /\ requests = <<>>
  /\ deps = Null /\ compositeIdRef = 0 /\ composites = <<>>
  /\ canvasSize = 0 /\ shown = <<>>

\* What the canvas and the selection leave alone.
nonCanvasVars ==
  <<filterVars, requestVars, samVars, uploadVars, diffVars, blendVars,
    alignVars, sessionVars, originalImage, wheelMask, wheelSam, bodyMask,
    bodySam, wheelCut, wheelLayer, paintCut, paintLayer, canvas,
    isProcessing, processingItem, error, fetching, timers, requests,
    isLoadingWheelMask, isLoadingBodyMask>>

\* React runs the effects of one render before it renders the next update.
EffectsFlushed == deps = canvasProps

\* handleWheelClick as the canvas sees it: the selected wheel toggles its
\* visibility, another wheel becomes the selection.
WheelClicked(id) ==
  /\ EffectsFlushed
  /\ IF selectedWheel = id
       THEN wheelVisible' = ~wheelVisible /\ UNCHANGED selectedWheel
       ELSE wheelVisible' = TRUE /\ selectedWheel' = id
  /\ viewingOriginal' = FALSE
  /\ UNCHANGED <<paintSelection, layerCache, compositeVars, nonCanvasVars>>

\* handlePaintClick as the canvas sees it.
PaintClicked(id) ==
  /\ EffectsFlushed
  /\ IF selectedPaint = id
       THEN paintVisible' = ~paintVisible /\ UNCHANGED selectedPaint
       ELSE paintVisible' = TRUE /\ selectedPaint' = id
  /\ viewingOriginal' = FALSE
  /\ UNCHANGED <<wheelSelection, layerCache, compositeVars, nonCanvasVars>>

\* The generation for the selected item stores its layer.
LayerArrives(layerType) ==
  /\ EffectsFlushed
  /\ IF layerType = "wheel"
       THEN /\ selectedWheel # null
            /\ selectedWheel \notin DOMAIN wheelLayers
            /\ wheelLayers' = Put(wheelLayers, selectedWheel,
                                  LayerUrlOf(selectedWheel))
            /\ UNCHANGED paintLayers
       ELSE /\ selectedPaint # null
            /\ selectedPaint \notin DOMAIN paintLayers
            /\ paintLayers' = Put(paintLayers, selectedPaint,
                                  LayerUrlOf(selectedPaint))
            /\ UNCHANGED wheelLayers
  /\ UNCHANGED <<wheelSelection, paintSelection, viewingOriginal,
                 compositeVars, nonCanvasVars>>

\* The Original / Tuned buttons.
SetViewingOriginal(b) ==
  /\ EffectsFlushed
  /\ viewingOriginal # b
  /\ viewingOriginal' = b
  /\ UNCHANGED <<wheelSelection, paintSelection, layerCache, compositeVars,
                 nonCanvasVars>>

\* The composite effect runs after a render whose props differ from those
\* of its last run: a new composite() is started under the next id.
RunEffect ==
  /\ deps # canvasProps
  /\ deps' = canvasProps
  /\ IF originalImage = Null
       THEN UNCHANGED <<compositeIdRef, composites>>
       ELSE /\ compositeIdRef < MaxComposites
            /\ compositeIdRef' = compositeIdRef + 1
            /\ composites' = Append(composites,
                                    [pc |-> "original",
                                     props |-> canvasProps])
  /\ UNCHANGED <<canvasSize, shown, wheelSelection, paintSelection,
                 layerCache, viewingOriginal, nonCanvasVars>>

\* A composite gives up: a newer one has started.
Cancelled(compositeId) ==
  /\ composites' = [composites EXCEPT ![compositeId] =
                      [pc |-> "cancelled", props |-> Null]]
  /\ UNCHANGED <<canvasSize, shown>>

\* await loadImage(originalImage) returns: a superseded composite stops;
\* the current one sizes the canvas to the photograph (which clears it)
\* when the size differs, and goes on to load the layers.
OriginalLoaded(compositeId) ==
  /\ compositeId \in DOMAIN composites
  /\ composites[compositeId].pc = "original"
  /\ IF compositeId # compositeIdRef
       THEN Cancelled(compositeId)
       ELSE /\ canvasSize' = NaturalSize
            /\ shown' = IF canvasSize # NaturalSize THEN <<>> ELSE shown
            /\ composites' = [composites EXCEPT ![compositeId].pc = "layers"]
  /\ UNCHANGED <<deps, compositeIdRef, wheelSelection, paintSelection,
                 layerCache, viewingOriginal, nonCanvasVars>>

\* The composite that draws without looking at compositeIdRef again.
LayersLoadedUnchecked(compositeId) ==
  /\ compositeId \in DOMAIN composites
  /\ composites[compositeId].pc = "layers"
  /\ shown' = Drawing(composites[compositeId].props)
  /\ composites' = [composites EXCEPT ![compositeId] =
                      [pc |-> "done", props |-> Null]]
  /\ UNCHANGED <<canvasSize, deps, compositeIdRef, wheelSelection,
                 paintSelection, layerCache, viewingOriginal, nonCanvasVars>>

\* The layer images are loaded: a superseded composite stops; the current
\* one clears the canvas and draws the photograph, the wheel layer and the
\* paint layer in that order.
LayersLoaded(compositeId) ==
  /\ compositeId \in DOMAIN composites
  /\ composites[compositeId].pc = "layers"
  /\ IF compositeId # compositeIdRef
       THEN Cancelled(compositeId)
       ELSE /\ shown' = Drawing(composites[compositeId].props)
            /\ composites' = [composites EXCEPT ![compositeId] =
                                [pc |-> "done", props |-> Null]]
            /\ UNCHANGED canvasSize
  /\ UNCHANGED <<deps, compositeIdRef, wheelSelection, paintSelection,
                 layerCache, viewingOriginal, nonCanvasVars>>

NextCanvas ==
  \/ \E id \in WheelIds : WheelClicked(id)
  \/ \E id \in PaintIds : PaintClicked(id)
  \/ \E layerType \in {"wheel", "paint"} : LayerArrives(layerType)
  \/ \E b \in BOOLEAN : SetViewingOriginal(b)
  \/ RunEffect
  \/ \E compositeId \in 1 .. MaxComposites : OriginalLoaded(compositeId)
  \/ \E compositeId \in 1 .. MaxComposites : LayersLoaded(compositeId)

SpecCanvas == InitCanvas /\ [][NextCanvas]_vars

\* No composite is loading images and the effect has run for the props of
\* the last render.
CompositesSettled ==
  /\ EffectsFlushed
  /\ \A id \in DOMAIN composites : composites[id].pc \in {"done", "cancelled"}

\* A step of a composite that a newer one has superseded.
SupersededStep ==
  \E id \in DOMAIN composites :
    id < compositeIdRef /\ composites'[id] # composites[id]

====
